---------------------------- MODULE Spec2Model ----------------------------
(***************************************************************************)
(* Model of packages/amplify-cli/src/initialize-env.ts: one run of         *)
(* initializeEnv(context, currentAmplifyMeta).                             *)
(*                                                                         *)
(* JavaScript objects are functions whose domain is a set of strings;      *)
(* Object.assign is function override.  Every call the orchestrator makes  *)
(* to a collaborator is recorded in `log`, in program order.               *)
(***************************************************************************)
EXTENDS Naturals, Sequences, FiniteSets, TLC

\* ------------------------------------------------------------------ bounds

\* longest provider list (context.exeInfo.projectConfig.providers)
MaxProviders == 2

\* ------------------------------------------------------------ JS values

\* the JavaScript value `undefined`
Undefined == [undefined |-> TRUE]
\* the object literal {}
EmptyObject == [k \in {} |-> Undefined]

\* Object.assign(target, source)
ObjectAssign(target, source) ==
    [k \in (DOMAIN target) \cup (DOMAIN source) |->
        IF k \in DOMAIN source THEN source[k] ELSE target[k]]

\* Object.keys(o)
ObjectKeys(o) == DOMAIN o

\* o[k], which is undefined for a key the object does not have
Get(o, k) == IF k \in DOMAIN o THEN o[k] ELSE Undefined

\* the value of an Error's cause slot when there is none
NoCause == << >>

\* an Error thrown by a collaborator or a plugin hook
RawError(msg) == [type |-> "Error", message |-> msg, details |-> "", cause |-> NoCause]

\* the TypeError the runtime raises (property of undefined, not a function, ...)
TypeError(msg) == [type |-> "TypeError", message |-> msg, details |-> "", cause |-> NoCause]

\* amplifyFaultWithTroubleshootingLink(name, { message, details, ... }, cause)
amplifyFaultWithTroubleshootingLink(name, message, details, cause) ==
    [type |-> name, message |-> message, details |-> details, cause |-> <<cause>>]

\* ------------------------------------------------------------ the inputs

\* the environment of the run: context.exeInfo.localEnvInfo.envName
EnvName == "dev"

ProviderNames == {"awscloudformation", "other"}

CategoryNames == {"auth", "hosting"}

\* sequences of at most n elements of S, duplicates allowed
RECURSIVE SeqsUpTo(_, _)
SeqsUpTo(S, n) ==
    IF n = 0 THEN {<< >>}
    ELSE LET shorter == SeqsUpTo(S, n - 1)
         IN  shorter \cup {Append(s, x) : s \in {t \in shorter : Len(t) = n - 1}, x \in S}

\* provider lists of the project configuration: none, or the cloud provider
\* followed by any providers, duplicates allowed
ProviderLists ==
    {<< >>} \cup {<<"awscloudformation">> \o s : s \in SeqsUpTo(ProviderNames, MaxProviders - 1)}

\* teamProviderInfo?.[currentEnv]?.awscloudformation as recorded on disk
TeamProviderInfos == {Undefined, [StackName |-> "dev-stack"]}

\* contents of backend-config.json
BackendConfigs ==
    { [auth |-> [userPool |-> [service |-> "Cognito"]]],
      [providers |-> [legacy |-> [StackName |-> "bc-stack"]],
       auth |-> [userPool |-> [service |-> "Cognito"]],
       hosting |-> [ElasticContainer |-> [service |-> "ElasticContainer", domain |-> "bc"]]] }

\* the environment parameter manager's record for (hosting, ElasticContainer):
\* has: hasResourceParamManager, params: getAllParams (empty: hasAnyParams is false)
EnvParamStates ==
    { [has |-> FALSE, params |-> EmptyObject],
      [has |-> TRUE, params |-> EmptyObject],
      [has |-> TRUE, params |-> [domain |-> "override"]] }

\* amplify-meta.json as persisted before the run: in step with
\* team-provider-info.json, or restored from another snapshot
PersistedMetas ==
    { [providers |-> [awscloudformation |-> [StackName |-> "dev-stack"]]],
      [providers |-> [awscloudformation |-> [StackName |-> "restored-stack"]],
       auth |-> [userPool |-> [service |-> "Cognito"]]] }

\* the caller's exeInfo.forcePush
ForcePushValues == {"undefined", "true", "false"}

\* context.input: the command and its subCommands
Input(cmd, sub) == [command |-> cmd, subCommands |-> sub]

\* `amplify pull` and `amplify init`
Commands == {Input("pull", << >>), Input("init", << >>)}

\* these, and `amplify env pull`, `amplify env checkout <env>` (also for an
\* environment called pull)
EnvCommands ==
    Commands \cup {Input("env", <<"pull">>), Input("env", <<"checkout", EnvName>>),
                   Input("env", <<"checkout", "pull">>)}

\* the packageLocation of a category's plugins
PluginLocations(category, n) == [i \in 1..n |-> category \o "-plugin-" \o ToString(i)]

\* the plugin lists a category can have
PluginLists(category) ==
    {PluginLocations(category, 0), PluginLocations(category, 2)}

\* getAllCategoryPluginInfo(context): the categories in key order, each with
\* its plugins in order
CategoryPluginInfoLists ==
    { <<[category |-> "hosting", plugins |-> plugins],
        [category |-> "auth", plugins |-> PluginLocations("auth", 1)]>> :
        plugins \in PluginLists("hosting") }

\* what `await import(location)` can give for a category plugin
CategoryModules == {[initEnv |-> TRUE], [initEnv |-> FALSE]}

\* what `await import(providerPlugins[provider])` can give
ProviderModules ==
    { [initEnv |-> TRUE, pushResources |-> TRUE],
      [initEnv |-> FALSE, pushResources |-> TRUE] }

\* ManuallyTimedCodePath.INIT_ENV_PLATFORM / INIT_ENV_CATEGORIES
INIT_ENV_PLATFORM == "INIT_ENV_PLATFORM"
INIT_ENV_CATEGORIES == "INIT_ENV_CATEGORIES"

\* ------------------------------------------------------------- the state

VARIABLES
    restoreBackend,     \* context.exeInfo.restoreBackend
    command,            \* context.input (command, subCommands)
    forcePush,          \* context.exeInfo.forcePush
    providers,          \* context.exeInfo.projectConfig.providers
    persistedMeta,      \* amplify-meta.json: what stateManager.getMeta() reads
    moduleCache,        \* the runtime's module cache: location -> module
    pc,                 \* the await initializeEnv is suspended at
    amplifyMeta,        \* const amplifyMeta
    categoryPluginInfoList,
    availableCategories,
    catIdx, plugIdx,    \* position of the two nested category loops
    provIdx,            \* position of a loop over providers
    categoryInitializationTasks,
    initializationTasks,
    providerPushTasks,
    seqIdx,             \* sequential(): the task whose turn it is
    running,            \* the hook invocations in progress
    outcome,            \* "running" | "returned" | "thrown"
    thrown,             \* the error the caller receives, << >> when none
    log,                \* every collaborator call, in program order
    serviceMeta,        \* context.exeInfo.serviceMeta.output (notification channels)
    pinpoint,           \* the channels of the Pinpoint application, as the service holds them
    locals              \* the local variables of the channel operation in progress

inputs == <<restoreBackend, command, providers>>
channel == <<serviceMeta, pinpoint, locals>>
lists == <<categoryPluginInfoList, availableCategories, catIdx, plugIdx, provIdx>>
tasks == <<categoryInitializationTasks, initializationTasks, providerPushTasks>>
vars == <<restoreBackend, command, forcePush, providers, persistedMeta, moduleCache,
          pc, amplifyMeta, categoryPluginInfoList, availableCategories, catIdx,
          plugIdx, provIdx, categoryInitializationTasks, initializationTasks,
          providerPushTasks, seqIdx, running, outcome, thrown, log,
          serviceMeta, pinpoint, locals>>

\* line 20: const currentEnv = context.exeInfo.localEnvInfo.envName
currentEnv == EnvName

\* a test of the command alone
isPullingByCommandOnly == command.command = "pull"

\* line 21: command === 'pull' || (command === 'env' && subCommands[0] === 'pull')
isPulling ==
    \/ command.command = "pull"
    \/ /\ command.command = "env"
       /\ command.subCommands[1] = "pull"

\* one entry of the log
Event(ev, id) == [ev |-> ev, id |-> id, who |-> "", n |-> 0, ok |-> TRUE, arg |-> Undefined]

\* a call that threw
Failed(ev, id) == [Event(ev, id) EXCEPT !.ok = FALSE]

\* line 148
SpinnerFailMessage == "There was an error initializing your environment."

\* line 148: spinner.fail(...), logged with the throw of line 149 that follows it
CatchEvents(e) == <<Event("spinner.fail", SpinnerFailMessage), Event("throw", e.message)>>

\* a catch that swallows the error
CatchThrowsNothing(e) == << >>

\* line 149: throw e
CatchThrows(e) == <<e>>

\* a catch after which the function goes on to regenerate the outputs
TopLevelCatchFallsThrough(events, e) ==
    /\ log' = log \o events \o <<[Event("caught", e.message) EXCEPT !.arg = e]>> \o CatchEvents(e)
    /\ pc' = "outputs"
    /\ UNCHANGED <<outcome, thrown>>

\* a catch that notifies and lets the step be taken again
TopLevelCatchRetries(events, e) ==
    /\ log' = log \o events \o <<[Event("caught", e.message) EXCEPT !.arg = e]>> \o CatchEvents(e)
    /\ pc' = pc
    /\ UNCHANGED <<outcome, thrown>>

\* An exception raised inside the try of line 23 reaches the catch of line 146,
\* which ends the run.  `events` are the calls made since the last await, up to
\* the one that threw; no await lies between the throw and line 149.
TopLevelCatch(events, e) ==
    /\ log' = log \o events \o <<[Event("caught", e.message) EXCEPT !.arg = e]>> \o CatchEvents(e)
    /\ thrown' = CatchThrows(e)
    /\ outcome' = IF CatchThrows(e) = << >> THEN "returned" ELSE "thrown"
    /\ pc' = "done"

\* the run goes on to its next await
Continue(events, next) ==
    /\ log' = log \o events
    /\ pc' = next
    /\ UNCHANGED <<outcome, thrown>>

Init ==
    /\ restoreBackend \in BOOLEAN
    /\ command \in Commands
    /\ forcePush \in ForcePushValues
    /\ providers \in ProviderLists
    /\ persistedMeta \in PersistedMetas
    /\ moduleCache = EmptyObject
    /\ pc = "getTeamProviderInfo"
    /\ amplifyMeta = Undefined
    /\ categoryPluginInfoList = << >>
    /\ availableCategories = << >>
    /\ catIdx = 1
    /\ plugIdx = 1
    /\ provIdx = 1
    /\ categoryInitializationTasks = << >>
    /\ initializationTasks = << >>
    /\ providerPushTasks = << >>
    /\ seqIdx = 1
    /\ running = {}
    /\ outcome = "running"
    /\ thrown = << >>
    /\ log = << >>
    /\ serviceMeta = Undefined
    /\ pinpoint = Undefined
    /\ locals = EmptyObject

\* ------------------------------------------------------ merge (lines 24-37)

\* lines 26-29: amplifyMeta = { providers: {} };
\* amplifyMeta.providers.awscloudformation = teamProviderInfo?.[currentEnv]?.awscloudformation
InitialAmplifyMeta(teamProviderInfo) == [providers |-> [awscloudformation |-> teamProviderInfo]]

\* mergeBackendConfigIntoAmplifyMeta, line 155: Object.assign(amplifyMeta, backendConfig)
mergeBackendConfigIntoAmplifyMeta(meta, backendConfig) == ObjectAssign(meta, backendConfig)

\* mergeCategoryEnvParamsIntoAmplifyMeta, lines 164-169.  The result is the
\* meta after the call, or the TypeError the call raises.
mergeCategoryEnvParamsIntoAmplifyMeta(envParamManager, meta, category, serviceName) ==
    IF envParamManager.has /\ ObjectKeys(envParamManager.params) # {}
    THEN IF category \notin DOMAIN meta
         THEN [threw |-> TRUE, meta |-> meta,
               error |-> TypeError("Cannot read properties of undefined (reading '"
                                   \o serviceName \o "')")]
         ELSE IF serviceName \notin DOMAIN meta[category]
         THEN [threw |-> TRUE, meta |-> meta,
               error |-> TypeError("Cannot convert undefined or null to object")]
         ELSE [threw |-> FALSE,
               meta |-> [meta EXCEPT ![category] =
                            [@ EXCEPT ![serviceName] = ObjectAssign(@, envParamManager.params)]],
               error |-> Undefined]
    ELSE [threw |-> FALSE, meta |-> meta, error |-> Undefined]

\* the condition of line 33 inverted
MergesWhenRestoring(restore) == restore

\* a merge that ignores restoreBackend
MergesAlways(restore) == TRUE

\* line 33: the merge and the write of the meta happen unless restoreBackend
MergesBackendConfig(restore) == ~restore

\* lines 24-31, up to the await of ensureEnvParamManager
GetTeamProviderInfo ==
    /\ pc = "getTeamProviderInfo"
    /\ \/ \E teamProviderInfo \in TeamProviderInfos :
            /\ amplifyMeta' = InitialAmplifyMeta(teamProviderInfo)
            /\ Continue(<<[Event("getTeamProviderInfo", "") EXCEPT !.arg = teamProviderInfo]>>,
                        "ensureEnvParamManager")
       \/ /\ TopLevelCatch(<<Failed("getTeamProviderInfo", "")>>,
                           RawError("team-provider-info.json is not valid JSON"))
          /\ UNCHANGED amplifyMeta
    /\ UNCHANGED <<channel, inputs, forcePush, persistedMeta, moduleCache, lists, tasks, seqIdx, running>>

\* ------------------------------------------------- resolution (lines 39-84)

RECURSIVE NextCategory(_, _, _)

\* categoryPluginInfoList[category]
PluginsOf(infoList, category) ==
    LET at == CHOOSE i \in 1..Len(infoList) : infoList[i].category = category
    IN  infoList[at].plugins

\* Object.keys(categoryPluginInfoList)
CategoryKeys(infoList) == [i \in 1..Len(infoList) |-> infoList[i].category]

\* a filter that keeps every category
IsAnyCategory(initializedCategories, key) == TRUE

\* line 43: the filter's predicate, initializedCategories.includes(key)
IsInitialized(initializedCategories, key) == key \in initializedCategories

\* line 43: Object.keys(categoryPluginInfoList).filter(...)
FilterAvailable(infoList, initializedCategories) ==
    LET Keep(key) == IsInitialized(initializedCategories, key)
    IN  SelectSeq(CategoryKeys(infoList), Keep)

\* the first category at or after position c whose plugin list is not empty
\* (the inner loop of line 62 has no iteration for an empty list)
NextCategory(infoList, available, c) ==
    IF c > Len(available) THEN c
    ELSE IF Len(PluginsOf(infoList, available[c])) = 0
         THEN NextCategory(infoList, available, c + 1)
         ELSE c

\* the message of lines 86-88
SpinnerStartMessage ==
    IF isPulling
    THEN "Fetching updates to backend environment: " \o currentEnv \o " from the cloud."
    ELSE "Initializing your environment: " \o currentEnv

\* lines 86-91, which follow the provider loop without an await
EnterPlatformPhase ==
    <<Event("spinner.start", SpinnerStartMessage), Event("startCodePathTimer", INIT_ENV_PLATFORM)>>

\* line 67 and what follows it: the provider loop, or lines 86-92 for an empty list
AfterCategoryLoop ==
    IF Len(providers) = 0
    THEN [events |-> <<Event("getProviderPlugins", "")>> \o EnterPlatformPhase, pc |-> "platform"]
    ELSE [events |-> <<Event("getProviderPlugins", "")>>, pc |-> "providerLoop"]

\* lines 39-43 and what follows them without an await, after the `merged`
\* calls, with `meta` in amplify-meta.json
ResolveCategories(merged, meta) ==
    \/ /\ TopLevelCatch(merged \o <<Failed("getMeta", "")>>,
                        RawError("amplify-meta.json is not valid JSON"))
       /\ UNCHANGED lists
    \/ \E infoList \in CategoryPluginInfoLists :
         LET initializedCategories == ObjectKeys(meta)
             available == FilterAvailable(infoList, initializedCategories)
             first == NextCategory(infoList, available, 1)
             read == <<Event("getMeta", ""), Event("getAllCategoryPluginInfo", "")>>
         IN  /\ categoryPluginInfoList' = infoList
             /\ availableCategories' = available
             /\ catIdx' = first
             /\ plugIdx' = 1
             /\ UNCHANGED provIdx
             /\ IF first <= Len(available)
                THEN Continue(merged \o read, "categoryLoop")
                ELSE Continue(merged \o read \o AfterCategoryLoop.events, AfterCategoryLoop.pc)

\* the await of line 31 settles; lines 33-43 follow
EnsureEnvParamManager ==
    /\ pc = "ensureEnvParamManager"
    /\ \/ /\ TopLevelCatch(<<Failed("ensureEnvParamManager", "")>>,
                           RawError("could not load environment parameters"))
          /\ UNCHANGED <<amplifyMeta, persistedMeta, lists>>
       \/ /\ ~MergesBackendConfig(restoreBackend)
          /\ ResolveCategories(<<Event("ensureEnvParamManager", "")>>, persistedMeta)
          /\ UNCHANGED <<amplifyMeta, persistedMeta>>
       \/ /\ MergesBackendConfig(restoreBackend)
          /\ TopLevelCatch(<<Event("ensureEnvParamManager", ""), Failed("getBackendConfig", "")>>,
                           RawError("backend-config.json is not valid JSON"))
          /\ UNCHANGED <<amplifyMeta, persistedMeta, lists>>
       \/ /\ MergesBackendConfig(restoreBackend)
          /\ \E backendConfig \in BackendConfigs, envParamManager \in EnvParamStates :
                LET merged == mergeBackendConfigIntoAmplifyMeta(amplifyMeta, backendConfig)
                    withParams == mergeCategoryEnvParamsIntoAmplifyMeta(
                                      envParamManager, merged, "hosting", "ElasticContainer")
                    called == <<Event("ensureEnvParamManager", ""),
                                Event("getBackendConfig", "")>>
                IN  IF withParams.threw
                    THEN /\ amplifyMeta' = merged
                         /\ TopLevelCatch(called \o <<Failed("mergeCategoryEnvParams", "")>>,
                                          withParams.error)
                         /\ UNCHANGED <<persistedMeta, lists>>
                    ELSE /\ amplifyMeta' = withParams.meta
                         /\ persistedMeta' = withParams.meta
                         /\ ResolveCategories(
                                called \o <<Event("mergeCategoryEnvParams", ""),
                                            [Event("setMeta", "") EXCEPT !.arg = withParams.meta]>>,
                                withParams.meta)
    /\ UNCHANGED <<channel, inputs, forcePush, moduleCache, tasks, seqIdx, running>>

\* a category fault with the provider's message
CategoryFaultNamesProvider(category, e) ==
    amplifyFaultWithTroubleshootingLink("PluginNotLoadedFault",
        "Could not load plugin for provider.", e.message, e)

\* the fault of lines 53-58
CategoryPluginNotLoadedFault(category, e) ==
    amplifyFaultWithTroubleshootingLink("PluginNotLoadedFault",
        "Could not load plugin for category " \o category \o ".", e.message, e)

\* lines 49-51: if (initEnv) categoryInitializationTasks.push(() => initEnv(context))
QueueInitEnvTask(queue, module, category, location) ==
    IF module.initEnv
    THEN Append(queue, [hook |-> "category.initEnv", who |-> category, location |-> location])
    ELSE queue

\* the error of a failed import()
ModuleNotFound(location) == RawError("Cannot find module '" \o location \o "'")

\* the await of line 47 settles: the rest of importCategoryPluginAndQueueInitEnvTask
\* and the loops of lines 61-65 up to the next import
ImportCategoryPluginAndQueueInitEnvTask ==
    /\ pc = "categoryLoop"
    /\ LET category == availableCategories[catIdx]
           plugins == PluginsOf(categoryPluginInfoList, category)
           location == plugins[plugIdx]
           nextCat == NextCategory(categoryPluginInfoList, availableCategories, catIdx + 1)
       IN  \/ /\ TopLevelCatch(<<[Failed("import", location) EXCEPT !.who = category]>>,
                               CategoryPluginNotLoadedFault(category, ModuleNotFound(location)))
              /\ UNCHANGED <<moduleCache, categoryInitializationTasks, catIdx, plugIdx>>
           \/ \E module \in CategoryModules :
                LET imported == <<[Event("import", location) EXCEPT !.who = category]>>
                IN  /\ moduleCache' = ObjectAssign(moduleCache, [l \in {location} |-> module])
                    /\ categoryInitializationTasks' =
                           QueueInitEnvTask(categoryInitializationTasks, module, category, location)
                    /\ IF plugIdx < Len(plugins)
                       THEN /\ plugIdx' = plugIdx + 1
                            /\ UNCHANGED catIdx
                            /\ Continue(imported, "categoryLoop")
                       ELSE /\ plugIdx' = 1
                            /\ catIdx' = nextCat
                            /\ IF nextCat <= Len(availableCategories)
                               THEN Continue(imported, "categoryLoop")
                               ELSE Continue(imported \o AfterCategoryLoop.events,
                                             AfterCategoryLoop.pc)
    /\ UNCHANGED <<channel, inputs, forcePush, persistedMeta, amplifyMeta, categoryPluginInfoList,
                   availableCategories, provIdx, initializationTasks, providerPushTasks,
                   seqIdx, running>>

\* getProviderPlugins(context)[provider]
ProviderPluginLocation(provider) == "provider-plugin-" \o provider

\* a provider fault with the category's message
ProviderFaultNamesCategory(provider, e) ==
    amplifyFaultWithTroubleshootingLink("PluginNotLoadedFault",
        "Could not load plugin for category.", e.message, e)

\* the fault of lines 77-82
ProviderPluginNotLoadedFault(provider, e) ==
    amplifyFaultWithTroubleshootingLink("PluginNotLoadedFault",
        "Could not load plugin for provider " \o provider \o ".", e.message, e)

\* an import of a location the runtime has loaded before gives the cached module
ImportedProviderModules(location) ==
    IF location \in DOMAIN moduleCache THEN {moduleCache[location]} ELSE ProviderModules

\* a provider queued only the first time it occurs in the list
QueueProviderInitTaskOnce(queue, provider, location) ==
    IF \E n \in 1..Len(queue) : queue[n].who = provider
    THEN queue
    ELSE Append(queue, [hook |-> "provider.initEnv", who |-> provider, location |-> location])

\* line 75: initializationTasks.push(() => providerModule.initEnv(context, amplifyMeta.providers[provider]))
QueueProviderInitTask(queue, provider, location) ==
    Append(queue, [hook |-> "provider.initEnv", who |-> provider, location |-> location])

\* the await of line 74 settles: one iteration of the loop of lines 72-84
ImportProviderPlugin ==
    /\ pc = "providerLoop"
    /\ LET provider == providers[provIdx]
           location == ProviderPluginLocation(provider)
       IN  \/ /\ location \notin DOMAIN moduleCache
              /\ TopLevelCatch(<<[Failed("import", location) EXCEPT !.who = provider]>>,
                               ProviderPluginNotLoadedFault(provider, ModuleNotFound(location)))
              /\ UNCHANGED <<moduleCache, initializationTasks, provIdx>>
           \/ \E module \in ImportedProviderModules(location) :
                LET imported == <<[Event("import", location) EXCEPT !.who = provider]>>
                IN  /\ moduleCache' = ObjectAssign(moduleCache, [l \in {location} |-> module])
                    /\ initializationTasks' =
                           QueueProviderInitTask(initializationTasks, provider, location)
                    /\ provIdx' = provIdx + 1
                    /\ IF provIdx < Len(providers)
                       THEN Continue(imported, "providerLoop")
                       ELSE Continue(imported \o EnterPlatformPhase, "platform")
    /\ UNCHANGED <<channel, inputs, forcePush, persistedMeta, amplifyMeta, categoryPluginInfoList,
                   availableCategories, catIdx, plugIdx, categoryInitializationTasks,
                   providerPushTasks, seqIdx, running>>

\* ------------------------------------- sequential(tasks) (promise-sequential)

SequentialPhases == {"platform", "categories", "push"}

\* the category tasks handed to the first sequential() and the provider tasks to the second
CurrentTasksSwapped ==
    CASE pc = "platform" -> categoryInitializationTasks
      [] pc = "categories" -> initializationTasks
      [] pc = "push" -> providerPushTasks
      [] OTHER -> << >>

\* the list handed to sequential() at lines 92, 114 and 139
CurrentTasks ==
    CASE pc = "platform" -> initializationTasks
      [] pc = "categories" -> categoryInitializationTasks
      [] pc = "push" -> providerPushTasks
      [] OTHER -> << >>

\* an executor that calls a task without waiting for the one in progress
sequentialStartsWithoutWaiting(i, n, busy) == i <= n

\* the executor starts task i of n only when no earlier task is still in progress
sequentialMayStart(i, n, busy) == ~busy /\ i <= n

\* an executor that goes on after a failure
sequentialAfterIgnoresFailure(i, ok) == i + 1

\* the task whose turn it is after task i has settled; 0: the executor rejects
sequentialAfter(i, ok) == IF ok THEN i + 1 ELSE 0

\* the executor's promise resolves once every task has succeeded
sequentialResolved(i, n, busy) == ~busy /\ i > n

\* ------------------------------------------------ the tasks (lines 50, 75, 136)

\* a call that finds a function on every module
HasHookAlways(task) == TRUE

\* whether the module exposes the function the task calls
HasHook(task) ==
    CASE task.hook = "provider.initEnv" -> moduleCache[task.location].initEnv
      [] task.hook = "pushResources" -> moduleCache[task.location].pushResources
      [] task.hook = "category.initEnv" -> TRUE

\* the number of pushResources invocations that have completed
PushesCompleted ==
    Cardinality({k \in 1..Len(log) : log[k].ev = "end" /\ log[k].id = "pushResources"})

\* context.amplify.getResourceStatus(undefined, undefined, provider)
ResourceStatus(provider) == [provider |-> provider, afterPushes |-> ToString(PushesCompleted)]

\* a push task that asks for the resource status when it is called
HookArgumentRecomputed(task) ==
    CASE task.hook = "provider.initEnv" -> Get(amplifyMeta["providers"], task.who)
      [] task.hook = "pushResources" -> ResourceStatus(task.who)
      [] task.hook = "category.initEnv" -> Undefined

\* the second argument of the call: amplifyMeta.providers[provider] (line 75),
\* resourceDefinition (line 136), none for a category (line 50)
HookArgument(task) ==
    CASE task.hook = "provider.initEnv" -> Get(amplifyMeta["providers"], task.who)
      [] task.hook = "pushResources" -> task.definition
      [] task.hook = "category.initEnv" -> Undefined

\* the error a hook invocation fails with
HookError(task, i) == RawError(task.hook \o " of " \o task.who \o " failed (#" \o ToString(i) \o ")")

\* calling a member that is not a function
NotAFunction(task) ==
    TypeError("providerModule."
              \o (IF task.hook = "pushResources" THEN "pushResources" ELSE "initEnv")
              \o " is not a function")

\* ---------------------------------------------- the phases (lines 90-145)

\* lines 93-98
PlatformInitFault(e) ==
    amplifyFaultWithTroubleshootingLink("ProjectInitFault",
        "Could not initialize platform for '" \o currentEnv \o "': " \o e.message, "", e)

\* lines 115-120
CategoriesInitFault(e) ==
    amplifyFaultWithTroubleshootingLink("ProjectInitFault",
        "Could not initialize categories for '" \o currentEnv \o "': " \o e.message, "", e)

\* the two wrapping messages exchanged
PhaseCatchExchanged(phase, e) ==
    CASE phase = "platform" -> CategoriesInitFault(e)
      [] phase = "categories" -> PlatformInitFault(e)
      [] phase = "push" -> e

\* a push phase that wraps like the init phases
PhaseCatchWrapsPush(phase, e) ==
    CASE phase = "platform" -> PlatformInitFault(e)
      [] phase = "categories" -> CategoriesInitFault(e)
      [] phase = "push" -> PlatformInitFault(e)

\* the catch clause around each `await sequential(...)`: lines 93-98, 115-120;
\* line 139 has none
PhaseCatch(phase, e) ==
    CASE phase = "platform" -> PlatformInitFault(e)
      [] phase = "categories" -> CategoriesInitFault(e)
      [] phase = "push" -> e

\* a timer stopped only for the first phase
PhaseFinallyPlatformOnly(phase) ==
    CASE phase = "platform" -> <<Event("stopCodePathTimer", INIT_ENV_PLATFORM)>>
      [] phase = "categories" -> << >>
      [] phase = "push" -> << >>

\* the finally clause around each `await sequential(...)`: lines 99-101, 121-123
PhaseFinally(phase) ==
    CASE phase = "platform" -> <<Event("stopCodePathTimer", INIT_ENV_PLATFORM)>>
      [] phase = "categories" -> <<Event("stopCodePathTimer", INIT_ENV_CATEGORIES)>>
      [] phase = "push" -> << >>

\* `await sequential(...)` rejects with e after the calls `events`: the phase's
\* catch and finally, then the catch of line 146
PhaseRejected(events, e) ==
    TopLevelCatch(events \o PhaseFinally(pc), PhaseCatch(pc, e))

\* the executor calls the task whose turn it is
StartTask ==
    /\ pc \in SequentialPhases
    /\ sequentialMayStart(seqIdx, Len(CurrentTasks), running # {})
    /\ LET task == CurrentTasks[seqIdx]
       IN  IF HasHook(task)
           THEN /\ Continue(<<[Event("start", task.hook) EXCEPT
                                 !.who = task.who, !.n = seqIdx, !.arg = HookArgument(task)]>>, pc)
                /\ running' = running \cup {seqIdx}
           ELSE /\ PhaseRejected(<<[Failed("start", task.hook) EXCEPT
                                       !.who = task.who, !.n = seqIdx]>>, NotAFunction(task))
                /\ UNCHANGED running
    /\ UNCHANGED <<channel, inputs, forcePush, persistedMeta, moduleCache, amplifyMeta, lists, tasks, seqIdx>>

\* the promise of a started hook settles
SettleTask ==
    /\ pc \in SequentialPhases
    /\ \E i \in running, ok \in BOOLEAN :
        LET task == CurrentTasks[i]
            next == sequentialAfter(i, ok)
            ended == <<[Event("end", task.hook) EXCEPT !.who = task.who, !.n = i, !.ok = ok]>>
        IN  /\ running' = running \ {i}
            /\ IF next # 0
               THEN /\ seqIdx' = next
                    /\ Continue(ended, pc)
               ELSE /\ PhaseRejected(ended, HookError(task, i))
                    /\ UNCHANGED seqIdx
    /\ UNCHANGED <<channel, inputs, forcePush, persistedMeta, moduleCache, amplifyMeta, lists, tasks>>

\* a spinner that reports the provider phase in the same words for a pull
SpinnerSucceedMessageOfInit == "Initialized provider successfully."

\* lines 103-105
SpinnerSucceedMessage ==
    IF isPulling
    THEN "Successfully pulled backend environment " \o currentEnv \o " from the cloud."
    ELSE "Initialized provider successfully."

\* the await of line 92 resolves: lines 99-114
PlatformSucceeded ==
    /\ pc = "platform"
    /\ sequentialResolved(seqIdx, Len(CurrentTasks), running # {})
    /\ LET done == PhaseFinally("platform") \o <<Event("spinner.succeed", SpinnerSucceedMessage)>>
       IN  \/ /\ TopLevelCatch(done \o <<Failed("getProjectDetails", "")>>,
                               RawError("could not read the project details"))
              /\ UNCHANGED seqIdx
           \/ /\ Continue(done \o <<Event("getProjectDetails", ""),
                                    Event("assignProjectDetails", ""),
                                    Event("startCodePathTimer", INIT_ENV_CATEGORIES)>>,
                          "categories")
              /\ seqIdx' = 1
    /\ UNCHANGED <<channel, inputs, forcePush, persistedMeta, moduleCache, amplifyMeta, lists, tasks, running>>

\* a declined push that ends the run without regenerating the outputs
AfterPushDecisionSkipsOutputs(push) ==
    IF push = "true"
    THEN IF Len(providers) = 0 THEN "push" ELSE "pushLoop"
    ELSE "done"

\* line 131 and what follows it once exeInfo.forcePush is `push`
AfterPushDecision(push) ==
    IF push = "true"
    THEN IF Len(providers) = 0 THEN "push" ELSE "pushLoop"
    ELSE "outputs"

\* a confirmation asked whenever the flag is not true
AsksUnlessTrue(push) == push # "true"

\* line 125: the confirmation is asked when the flag is undefined
AsksConfirmation(push) == push = "undefined"

\* the await of line 114 resolves: lines 121-131
CategoriesSucceeded ==
    /\ pc = "categories"
    /\ sequentialResolved(seqIdx, Len(CurrentTasks), running # {})
    /\ Continue(PhaseFinally("categories"),
                IF AsksConfirmation(forcePush) THEN "confirmPrompt" ELSE AfterPushDecision(forcePush))
    /\ seqIdx' = 1
    /\ provIdx' = 1
    /\ UNCHANGED <<channel, inputs, forcePush, persistedMeta, moduleCache, amplifyMeta,
                   categoryPluginInfoList, availableCategories, catIdx, plugIdx, tasks, running>>

\* the await of line 126 settles
ConfirmPrompt ==
    /\ pc = "confirmPrompt"
    /\ \/ \E answer \in {"true", "false"} :
            /\ forcePush' = answer
            /\ Continue(<<[Event("confirmPrompt", "") EXCEPT !.arg = [answer |-> answer]]>>,
                        AfterPushDecision(answer))
       \/ /\ TopLevelCatch(<<Failed("confirmPrompt", "")>>, RawError("the prompt was interrupted"))
          /\ UNCHANGED forcePush
    /\ UNCHANGED <<channel, inputs, persistedMeta, moduleCache, amplifyMeta, lists, tasks, seqIdx, running>>

\* line 136: providerPushTasks.push(() => providerModule.pushResources(context, resourceDefinition))
QueuePushResourcesTask(queue, provider, location, resourceDefinition) ==
    Append(queue, [hook |-> "pushResources", who |-> provider, location |-> location,
                   definition |-> resourceDefinition])

\* the awaits of lines 133 and 135 settle: one iteration of the loop of lines 132-137
QueuePushTask ==
    /\ pc = "pushLoop"
    /\ LET provider == providers[provIdx]
           location == ProviderPluginLocation(provider)
           imported == [Event("import", location) EXCEPT !.who = provider]
       IN  \/ /\ TopLevelCatch(<<imported, Failed("getResourceStatus", provider)>>,
                    RawError("could not compute the resource status for " \o provider))
              /\ UNCHANGED <<providerPushTasks, provIdx>>
           \/ /\ Continue(<<imported, Event("getResourceStatus", provider)>>,
                          IF provIdx < Len(providers) THEN "pushLoop" ELSE "push")
              /\ providerPushTasks' =
                     QueuePushResourcesTask(providerPushTasks, provider, location,
                                            ResourceStatus(provider))
              /\ provIdx' = provIdx + 1
    /\ UNCHANGED <<channel, inputs, forcePush, persistedMeta, moduleCache, amplifyMeta,
                   categoryPluginInfoList, availableCategories, catIdx, plugIdx,
                   categoryInitializationTasks, initializationTasks, seqIdx, running>>

\* line 145
PrinterSuccessMessage == IF isPulling THEN "" ELSE "Initialized your environment successfully."

\* the await of line 143 settles (the call follows line 131 when push is
\* declined, and the resolution of line 139 otherwise): lines 143-145
OnCategoryOutputsChange ==
    /\ \/ pc = "outputs"
       \/ /\ pc = "push"
          /\ sequentialResolved(seqIdx, Len(CurrentTasks), running # {})
    /\ \/ TopLevelCatch(<<Failed("onCategoryOutputsChange", "")>>,
                        RawError("could not generate the configuration file"))
       \/ /\ log' = log \o <<Event("onCategoryOutputsChange", ""),
                             Event("printer.success", PrinterSuccessMessage)>>
          /\ outcome' = "returned"
          /\ pc' = "done"
          /\ UNCHANGED thrown
    /\ UNCHANGED <<channel, inputs, forcePush, persistedMeta, moduleCache, amplifyMeta, lists, tasks,
                   seqIdx, running>>

Next ==
    \/ GetTeamProviderInfo
    \/ EnsureEnvParamManager
    \/ ImportCategoryPluginAndQueueInitEnvTask
    \/ ImportProviderPlugin
    \/ StartTask
    \/ SettleTask
    \/ PlatformSucceeded
    \/ CategoriesSucceeded
    \/ ConfirmPrompt
    \/ QueuePushTask
    \/ OnCategoryOutputsChange

Spec == Init /\ [][Next]_vars

\* ------------------------------------------------ observations on the log

Hooks == {"provider.initEnv", "category.initEnv", "pushResources"}

\* the task list a hook's tasks are queued in
TasksOfHook(hook) ==
    CASE hook = "provider.initEnv" -> initializationTasks
      [] hook = "category.initEnv" -> categoryInitializationTasks
      [] hook = "pushResources" -> providerPushTasks

\* the positions of the log that hold the call `ev`
Where(ev) == {k \in 1..Len(log) : log[k].ev = ev}

\* the positions of the log where the executor called a task of `hook`, or
\* where the hook's promise settled
HookPositions(hook) == {k \in 1..Len(log) : log[k].ev \in {"start", "end"} /\ log[k].id = hook}

\* the calls and settlements of one hook's tasks, in order
HookEvents(hook) ==
    LET OfHook(e) == e.ev \in {"start", "end"} /\ e.id = hook
    IN  SelectSeq(log, OfHook)

\* the positions where a task of `hook` failed
TaskFailures(hook) == {k \in HookPositions(hook) : ~log[k].ok}

\* the error of the task that failed at position k
ErrorOfTask(k) ==
    LET task == TasksOfHook(log[k].id)[log[k].n]
    IN  IF log[k].ev = "end" THEN HookError(task, log[k].n) ELSE NotAFunction(task)

\* every task of the hook's list has completed successfully before position k
AllCompletedBefore(hook, k) ==
    \A n \in 1..Len(TasksOfHook(hook)) :
        \E j \in 1..(k - 1) :
            log[j].ev = "end" /\ log[j].id = hook /\ log[j].n = n /\ log[j].ok

\* the positions of the timer calls of one phase identifier
TimerStarts(id) == {k \in Where("startCodePathTimer") : log[k].id = id}
TimerStops(id) == {k \in Where("stopCodePathTimer") : log[k].id = id}

\* ------------------------------------------------------------------ claims

\* C1: in every task list run by the sequential executor the tasks are called
\* and settle one after the other in list order; a failing task is the last
\* one called, so no task after the first failing one is ever started; and the
\* error the executor rejects with (the one the phase's catch receives, or the
\* caller for the push phase) is exactly the failing task's error.
C1_SequentialStopsAtFirstFailure ==
    \A hook \in Hooks :
        LET evs == HookEvents(hook)
            failures == TaskFailures(hook)
        IN  /\ \A m \in 1..Len(evs) :
                 /\ evs[m].n = (m + 1) \div 2
                 /\ evs[m].ev = IF m % 2 = 1 THEN "start" ELSE "end"
                 /\ ~evs[m].ok => m = Len(evs)
            /\ \A k \in failures :
                 /\ outcome = "thrown"
                 /\ IF hook = "pushResources"
                    THEN thrown = <<ErrorOfTask(k)>>
                    ELSE thrown[1].cause = <<ErrorOfTask(k)>>

\* C1 witness: of three category tasks the first completed, the second failed
\* and the third was never started.
C1_Witness ==
    /\ Len(categoryInitializationTasks) = 3
    /\ \E k \in TaskFailures("category.initEnv") : log[k].n = 2 /\ log[k].ev = "end"
    /\ outcome = "thrown"

\* C2: the phases occur in one order: every provider task has completed before
\* the project details are re-read; the details are merged before the first
\* category task is called; every category task has completed before anything
\* that follows the push decision; every provider has its push task completed
\* before onCategoryOutputsChange is called when push was decided; and the
\* success message directly follows the return of onCategoryOutputsChange.
C2_PhasesInFixedOrder ==
    /\ \A k \in Where("getProjectDetails") : AllCompletedBefore("provider.initEnv", k)
    /\ \A k \in HookPositions("category.initEnv") :
          \E j \in Where("assignProjectDetails") :
              j < k /\ \E d \in Where("getProjectDetails") : d < j
    /\ \A k \in Where("confirmPrompt") \cup Where("getResourceStatus")
                \cup HookPositions("pushResources") \cup Where("onCategoryOutputsChange") :
          AllCompletedBefore("category.initEnv", k)
    /\ \A k \in Where("onCategoryOutputsChange") :
          /\ AllCompletedBefore("pushResources", k)
          /\ forcePush = "true" => Len(providerPushTasks) = Len(providers)
    /\ \A k \in Where("printer.success") :
          /\ k = Len(log)
          /\ k > 1
          /\ log[k - 1].ev = "onCategoryOutputsChange"
          /\ log[k - 1].ok

\* C2 witness: a run that went through provider init, category init and push
\* and printed the success message.
C2_Witness ==
    /\ outcome = "returned"
    /\ Len(initializationTasks) = MaxProviders
    /\ Len(categoryInitializationTasks) > 1
    /\ Len(providerPushTasks) = MaxProviders

\* C3: when any step has raised an error, spinner.fail has been emitted exactly
\* once, the error the caller receives is the error the top-level handler
\* caught, it is thrown after the notification, and the run has not returned
\* normally.
C3_FailureNotifiedOnceAndRethrown ==
    LET failures == {k \in 1..Len(log) : ~log[k].ok}
        n == Len(log)
    IN  /\ failures # {} =>
            /\ outcome = "thrown"
            /\ Cardinality(Where("spinner.fail")) = 1
            /\ Cardinality(Where("caught")) = 1
            /\ Cardinality(failures) = 1
            /\ n >= 4
            /\ \A k \in failures : k < n - 2
            /\ log[n - 2].ev = "caught"
            /\ log[n - 1].ev = "spinner.fail"
            /\ log[n].ev = "throw"
            /\ thrown = <<log[n - 2].arg>>
        /\ outcome = "returned" => failures = {} /\ thrown = << >>
        /\ outcome = "thrown" => failures # {}

\* C3 witness: the push prompt failed after both init phases succeeded.
C3_Witness ==
    /\ outcome = "thrown"
    /\ \E k \in Where("confirmPrompt") : ~log[k].ok
    /\ Len(categoryInitializationTasks) > 0

\* C4: after a provider-init task has failed there is no category task, no
\* refresh of the project details, no push confirmation, no push task and no
\* onCategoryOutputsChange; after a category-init task has failed there is no
\* push confirmation, no push task and no onCategoryOutputsChange.
C4_PhaseFailureIsTerminal ==
    LET pushAndAfter == Where("confirmPrompt") \cup Where("getResourceStatus")
                        \cup HookPositions("pushResources") \cup Where("onCategoryOutputsChange")
    IN  /\ TaskFailures("provider.initEnv") # {} =>
            /\ HookPositions("category.initEnv") = {}
            /\ Where("getProjectDetails") \cup Where("assignProjectDetails") = {}
            /\ pushAndAfter = {}
            /\ pc = "done"
        /\ TaskFailures("category.initEnv") # {} =>
            /\ pushAndAfter = {}
            /\ pc = "done"

\* C4 witness: the second provider task failed in a run that has category
\* tasks queued and a push already decided by the caller.
C4_Witness ==
    /\ \E k \in TaskFailures("provider.initEnv") : log[k].n = 2
    /\ Len(categoryInitializationTasks) > 0
    /\ forcePush = "true"
    /\ pc = "done"

\* the calls of the merge path: getBackendConfig, the parameter merge, setMeta
MergeCalls == Where("getBackendConfig") \cup Where("mergeCategoryEnvParams") \cup Where("setMeta")

\* the positions where a provider's initEnv was invoked
ProviderInitCalls == {k \in HookPositions("provider.initEnv") : log[k].ev = "start" /\ log[k].ok}

\* teamProviderInfo?.[currentEnv]?.awscloudformation as the run read it
TeamProviderInfoRead == log[CHOOSE k \in Where("getTeamProviderInfo") : TRUE].arg

\* C5 (as stated): with restoreBackend = true none of the merge calls is made,
\* and the provider metadata passed to each provider's initEnv is the
\* provider's entry of the previously loaded (persisted) meta.
C5_Original ==
    restoreBackend =>
        /\ MergeCalls = {}
        /\ \A k \in ProviderInitCalls :
              log[k].arg = Get(persistedMeta["providers"], log[k].who)

\* what C5 holds of the state when restoreBackend = true
C5_RestoreState ==
    restoreBackend =>
        /\ MergeCalls = {}
        /\ \A k \in ProviderInitCalls :
              log[k].arg = IF log[k].who = "awscloudformation"
                           THEN TeamProviderInfoRead
                           ELSE Undefined

\* C5 (amended): with restoreBackend = true none of the merge calls is made and
\* the persisted meta is never written, so the meta getMeta reads is the
\* previously persisted one; the provider metadata passed to a provider's
\* initEnv is the team-provider-info entry of the current environment for
\* awscloudformation and undefined for any other provider.
C5_RestoreBackendSkipsMerge ==
    /\ [] C5_RestoreState
    /\ [][restoreBackend => persistedMeta' = persistedMeta]_vars

\* C5 witness: a restoreBackend run called awscloudformation's initEnv with a
\* value that is not the persisted meta's entry, and completed.
C5_Witness ==
    /\ restoreBackend
    /\ outcome = "returned"
    /\ \E k \in ProviderInitCalls :
          /\ log[k].who = "awscloudformation"
          /\ log[k].arg # Get(persistedMeta["providers"], log[k].who)

\* the tasks queued for a category, and those queued for a plugin location
TasksOfCategory(category) ==
    {n \in 1..Len(categoryInitializationTasks) : categoryInitializationTasks[n].who = category}
TasksOfLocation(location) ==
    {n \in 1..Len(categoryInitializationTasks) : categoryInitializationTasks[n].location = location}

\* the imports of category plugins
CategoryImports == {k \in Where("import") : log[k].who \in CategoryNames}

\* C6: for a category of getAllCategoryPluginInfo's result that is not a key of
\* the persisted meta no plugin is imported and no task is queued, whatever the
\* length of its plugin list; a loaded category module without initEnv has no
\* task queued and its import is not followed by an error.
C6_UninitializedCategoriesSkipped ==
    /\ \A i \in 1..Len(categoryPluginInfoList) :
          LET category == categoryPluginInfoList[i].category
          IN  category \notin ObjectKeys(persistedMeta) =>
                  /\ {k \in CategoryImports : log[k].who = category} = {}
                  /\ TasksOfCategory(category) = {}
    /\ \A k \in CategoryImports :
          (log[k].ok /\ ~moduleCache[log[k].id].initEnv) =>
              /\ TasksOfLocation(log[k].id) = {}
              /\ k < Len(log) => log[k + 1].ev # "caught"

\* C6 witness: a completed run in which a category with a plugin list of the
\* greatest length was not initialized, and a loaded module had no initEnv.
C6_Witness ==
    /\ outcome = "returned"
    /\ \E i \in 1..Len(categoryPluginInfoList) :
          /\ categoryPluginInfoList[i].category \notin ObjectKeys(persistedMeta)
          /\ Len(categoryPluginInfoList[i].plugins) = 2
    /\ \E k \in CategoryImports : log[k].ok /\ ~moduleCache[log[k].id].initEnv

\* the failed imports of provider plugins
FailedProviderImports == {k \in Where("import") : log[k].who \in ProviderNames /\ ~log[k].ok}

\* C7: when a provider's plugin module cannot be loaded the run ends with a
\* PluginNotLoadedFault whose message names that provider, and no initEnv or
\* pushResources task has been called and no phase timer started.
C7_ProviderLoadFailureAborts ==
    \A k \in FailedProviderImports :
        /\ outcome = "thrown"
        /\ thrown[1].type = "PluginNotLoadedFault"
        /\ thrown[1].message = "Could not load plugin for provider " \o log[k].who \o "."
        /\ \A hook \in Hooks : HookPositions(hook) = {}
        /\ Where("startCodePathTimer") = {}

\* C7 witness: the second provider of the list failed to load after category
\* tasks and the first provider's task were queued.
C7_Witness ==
    /\ Len(providers) = 2
    /\ \E k \in FailedProviderImports : log[k].who = providers[Len(providers)]
    /\ Len(initializationTasks) = 1
    /\ Len(categoryInitializationTasks) > 0

TimerIds == {INIT_ENV_PLATFORM, INIT_ENV_CATEGORIES}

\* the sequential() call a timer surrounds, and the hook of its tasks
PhaseOfTimer(id) == IF id = INIT_ENV_PLATFORM THEN "platform" ELSE "categories"
HookOfTimer(id) == IF id = INIT_ENV_PLATFORM THEN "provider.initEnv" ELSE "category.initEnv"

\* for a phase that was entered: one start; once the phase is over, on success
\* and on failure, one stop, after the start; a failure of the task list
\* precedes the stop, and the stop precedes the top-level catch
TimerStoppedOnce(id) ==
    /\ Cardinality(TimerStarts(id)) <= 1
    /\ \A s \in TimerStops(id) : \E t \in TimerStarts(id) : t < s
    /\ (TimerStarts(id) # {} /\ pc # PhaseOfTimer(id)) => Cardinality(TimerStops(id)) = 1
    /\ pc = PhaseOfTimer(id) => TimerStarts(id) # {} /\ TimerStops(id) = {}
    /\ \A k \in TaskFailures(HookOfTimer(id)) :
          \E s \in TimerStops(id) : k < s /\ \E c \in Where("caught") : s < c

\* C8 (as stated): the timers are stopped once, and after a failure of the
\* task list the error raised after the stop is the task's original error.
C8_Original ==
    \A id \in TimerIds :
        /\ TimerStoppedOnce(id)
        /\ \A k \in TaskFailures(HookOfTimer(id)) : thrown = <<ErrorOfTask(k)>>

\* C8 (amended): for each timed phase that is entered, on success and on
\* failure of its task list, stopCodePathTimer is called exactly once and after
\* startCodePathTimer for the same identifier; on failure the error raised
\* after the stop is the phase's ProjectInitFault, which carries the original
\* error unchanged as its cause.
C8_TimerStoppedOnceAndFaultRaised ==
    \A id \in TimerIds :
        /\ TimerStoppedOnce(id)
        /\ \A k \in TaskFailures(HookOfTimer(id)) :
              /\ thrown # << >>
              /\ thrown[1].type = "ProjectInitFault"
              /\ thrown[1].cause = <<ErrorOfTask(k)>>

\* C8 witness: the category phase was entered after the provider phase
\* succeeded, and its second task failed.
C8_Witness ==
    /\ TimerStops(INIT_ENV_PLATFORM) # {}
    /\ TimerStops(INIT_ENV_CATEGORIES) # {}
    /\ \E k \in TaskFailures("category.initEnv") : log[k].n = 2
    /\ Len(initializationTasks) > 0

\* the fault a failed task of an init phase must reach the caller as
ExpectedInitFault(text, original) ==
    [type |-> "ProjectInitFault",
     message |-> "Could not initialize " \o text \o " for '" \o EnvName \o "': " \o original.message,
     details |-> "",
     cause |-> <<original>>]

\* C9: a failed provider-init task reaches the caller as one ProjectInitFault
\* with the message "Could not initialize platform for '<env>': <original
\* message>", a failed category-init task as one with "Could not initialize
\* categories for '<env>': <original message>"; the original error, itself not
\* a wrapped one, is the cause, and the run has ended.
C9_InitFailuresWrapped ==
    /\ \A k \in TaskFailures("provider.initEnv") :
          /\ thrown = <<ExpectedInitFault("platform", ErrorOfTask(k))>>
          /\ ErrorOfTask(k).cause = NoCause
          /\ outcome = "thrown" /\ pc = "done"
    /\ \A k \in TaskFailures("category.initEnv") :
          /\ thrown = <<ExpectedInitFault("categories", ErrorOfTask(k))>>
          /\ ErrorOfTask(k).cause = NoCause
          /\ outcome = "thrown" /\ pc = "done"

\* C9 witness: a category task failed after the provider tasks succeeded.
C9_Witness ==
    /\ TaskFailures("category.initEnv") # {}
    /\ Len(initializationTasks) = MaxProviders
    /\ outcome = "thrown"

\* C10: a failed pushResources task reaches the caller as the task's own
\* error, not as a ProjectInitFault and without "Could not initialize" text;
\* between the failure and the throw there is only the failure notification.
C10_PushFailureUnwrapped ==
    \A k \in TaskFailures("pushResources") :
        /\ outcome = "thrown"
        /\ thrown = <<ErrorOfTask(k)>>
        /\ thrown[1].type # "ProjectInitFault"
        /\ thrown[1].message = HookError(providerPushTasks[log[k].n], log[k].n).message
        /\ Len(log) = k + 3
        /\ log[k + 1].ev = "caught" /\ log[k + 1].arg = ErrorOfTask(k)
        /\ log[k + 2].ev = "spinner.fail"
        /\ log[k + 3].ev = "throw"

\* C10 witness: the push task of the second provider failed.
C10_Witness ==
    /\ \E k \in TaskFailures("pushResources") : log[k].n = 2
    /\ outcome = "thrown"

\* the positions where pushResources was invoked, and where the push
\* confirmation was asked
PushCalls == {k \in HookPositions("pushResources") : log[k].ev = "start"}
PromptCalls == Where("confirmPrompt")

\* the category phase has succeeded: the push decision is the next step
CategoryPhaseSucceeded ==
    TimerStops(INIT_ENV_CATEGORIES) # {} /\ TaskFailures("category.initEnv") = {}

\* what C11 says of a state
C11_PushDecision ==
    /\ Cardinality(PromptCalls) <= 1
    /\ \A j \in PromptCalls : log[j].ok => forcePush = log[j].arg.answer
    /\ (CategoryPhaseSucceeded /\ forcePush = "undefined") =>
          \/ pc = "confirmPrompt" /\ PromptCalls = {}
          \/ pc = "done" /\ \E j \in PromptCalls : ~log[j].ok
    /\ \A k \in PushCalls \cup Where("getResourceStatus") :
          /\ forcePush = "true"
          /\ \A j \in PromptCalls : j < k /\ log[j].ok
    /\ forcePush = "false" => PushCalls \cup Where("getResourceStatus") = {}
    /\ \A k \in PushCalls :
          /\ log[k].n \in 1..Len(providers)
          /\ log[k].who = providers[log[k].n]
          /\ log[k].arg = providerPushTasks[log[k].n].definition
          /\ log[k].arg.provider = providers[log[k].n]
          /\ \E g \in Where("getResourceStatus") : g < k /\ log[g].id = log[k].who
          /\ \A j \in PushCalls : j < k => log[j].n < log[k].n
    /\ (forcePush = "true" /\ Where("onCategoryOutputsChange") # {}) =>
          {log[k].n : k \in PushCalls} = 1..Len(providers)

\* C11: the push confirmation is asked at most once, and only while the flag
\* is undefined: with the flag left undefined it is the step that follows the
\* category phase, with the flag pre-set it is never asked; pushResources is
\* called only once the flag is decided and true, never when it is false, for
\* the providers of the list in list order, each once, with the resource-status
\* definition resolved for that provider, and for every provider of the list by
\* the time the push phase is over.
C11_PushOnlyWhenConfirmed ==
    /\ [] C11_PushDecision
    /\ [][PromptCalls' # PromptCalls => forcePush = "undefined"]_vars

\* C11 witness: the flag was left undefined, the confirmation was answered yes
\* and the run completed after a push for each provider of the longest list.
C11_Witness ==
    /\ outcome = "returned"
    /\ \E j \in PromptCalls : log[j].ok /\ log[j].arg.answer = "true"
    /\ Len(providers) = MaxProviders
    /\ Cardinality(PushCalls) = Len(providers)

\* the positions where onCategoryOutputsChange was invoked
OutputsCalls == Where("onCategoryOutputsChange")

\* provider init and category init have both succeeded
InitPhasesSucceeded ==
    /\ TimerStops(INIT_ENV_PLATFORM) # {}
    /\ TaskFailures("provider.initEnv") = {}
    /\ CategoryPhaseSucceeded

\* the failures of the push step: the confirmation, the resolution of a
\* resource status, a pushResources task
PushStepFailures ==
    {k \in PromptCalls \cup Where("getResourceStatus") \cup HookPositions("pushResources") :
        ~log[k].ok}

\* where the one call of onCategoryOutputsChange stands
OutputsCallPlaced(k) ==
    /\ InitPhasesSucceeded
    /\ forcePush # "undefined"
    /\ forcePush = "true" =>
          /\ Len(providerPushTasks) = Len(providers)
          /\ AllCompletedBefore("pushResources", k)
    /\ forcePush = "false" =>
          /\ k > 1
          /\ \/ log[k - 1].ev = "confirmPrompt" /\ log[k - 1].ok
             \/ log[k - 1].ev = "stopCodePathTimer" /\ log[k - 1].id = INIT_ENV_CATEGORIES

\* C12 (as stated): in every finished run in which provider init and category
\* init succeeded, onCategoryOutputsChange was invoked exactly once, after all
\* push tasks when push was confirmed and directly after the decision when it
\* was declined.
C12_Original ==
    (pc = "done" /\ InitPhasesSucceeded) =>
        /\ Cardinality(OutputsCalls) = 1
        /\ \A k \in OutputsCalls : OutputsCallPlaced(k)

\* C12 (amended): onCategoryOutputsChange is never invoked twice; in every
\* finished run in which provider init and category init succeeded and neither
\* the push confirmation, the resolution of a resource status nor a push task
\* failed it was invoked exactly once, after all push tasks when push was
\* confirmed and directly after the push decision when it was declined; a run
\* that one of those failures ended never invoked it.
C12_OutputsRegeneratedOnce ==
    /\ Cardinality(OutputsCalls) <= 1
    /\ \A k \in OutputsCalls : OutputsCallPlaced(k) /\ PushStepFailures = {}
    /\ (pc = "done" /\ InitPhasesSucceeded /\ PushStepFailures = {}) =>
          Cardinality(OutputsCalls) = 1

\* C12 witness: a run that asked, was told not to push and completed, with
\* tasks in both init phases.
C12_Witness ==
    /\ outcome = "returned"
    /\ \E j \in PromptCalls : log[j].ok /\ log[j].arg.answer = "false"
    /\ Cardinality(OutputsCalls) = 1
    /\ Len(initializationTasks) > 0
    /\ Len(categoryInitializationTasks) > 0

\* the positions where a plugin module was loaded or a plugin hook was called
PluginUses == {k \in 1..Len(log) : log[k].ev \in {"import", "start", "end"}}

\* C13: when restoreBackend is false the meta is written through setMeta at
\* most once; the write follows the backend-config merge and the parameter
\* merge, in that order, and writes the merged meta; every load of a plugin
\* module and every call of an initEnv or pushResources hook comes after the
\* write, which a completed run has made exactly once.
C13_MetaWrittenOnceBeforePlugins ==
    ~restoreBackend =>
        LET writes == Where("setMeta")
        IN  /\ Cardinality(writes) <= 1
            /\ \A w \in writes :
                  /\ log[w].ok
                  /\ log[w].arg = amplifyMeta
                  /\ log[w].arg = persistedMeta
                  /\ \E b \in Where("getBackendConfig"), m \in Where("mergeCategoryEnvParams") :
                        b < m /\ m < w /\ log[b].ok /\ log[m].ok
            /\ \A k \in PluginUses \cup Where("getMeta") : \E w \in writes : w < k
            /\ outcome = "returned" => Cardinality(writes) = 1

\* C13 witness: a completed run without restoreBackend that loaded category
\* and provider plugins and pushed.
C13_Witness ==
    /\ ~restoreBackend
    /\ outcome = "returned"
    /\ Where("setMeta") # {}
    /\ Len(categoryInitializationTasks) > 0
    /\ HookPositions("pushResources") # {}

\* C14: after the merge step the providers mapping of the meta holds, for
\* awscloudformation, the team-provider info read for the current environment,
\* whatever backend-config.json contains, and that value is the one passed to
\* awscloudformation's initEnv.
C14_ProvidersEntryKept ==
    /\ \A w \in Where("setMeta") :
          /\ "providers" \in DOMAIN log[w].arg
          /\ Get(log[w].arg["providers"], "awscloudformation") = TeamProviderInfoRead
    /\ ~restoreBackend =>
          \A k \in ProviderInitCalls :
              log[k].who = "awscloudformation" => log[k].arg = TeamProviderInfoRead

\* ------------------------------ mergeCategoryEnvParamsIntoAmplifyMeta alone

\* the parameter manager's record for the pair the function is called with
MergeEnvParamStates ==
    EnvParamStates \cup {[has |-> TRUE, params |-> [domain |-> "override", port |-> "8080"]]}

\* the serviceName arguments: resources of some backend-config, and one of none
MergeServiceNames == {"ElasticContainer", "S3AndCloudFront", "Lambda"}

\* the backend-config contents the function is tried on
MergeBackendConfigs ==
    BackendConfigs \cup {[hosting |-> [S3AndCloudFront |-> [service |-> "S3AndCloudFront"]]]}

\* the meta the function is called with: lines 26-34 applied to the inputs
MergeInit ==
    /\ restoreBackend = FALSE
    /\ command = Input("init", << >>)
    /\ forcePush = "undefined"
    /\ providers = << >>
    /\ persistedMeta = EmptyObject
    /\ moduleCache = EmptyObject
    /\ pc = "mergeCategoryEnvParams"
    /\ \E teamProviderInfo \in TeamProviderInfos, backendConfig \in MergeBackendConfigs :
          amplifyMeta = mergeBackendConfigIntoAmplifyMeta(
                            InitialAmplifyMeta(teamProviderInfo), backendConfig)
    /\ categoryPluginInfoList = << >>
    /\ availableCategories = << >>
    /\ catIdx = 1
    /\ plugIdx = 1
    /\ provIdx = 1
    /\ categoryInitializationTasks = << >>
    /\ initializationTasks = << >>
    /\ providerPushTasks = << >>
    /\ seqIdx = 1
    /\ running = {}
    /\ outcome = "running"
    /\ thrown = << >>
    /\ log = << >>
    /\ serviceMeta = Undefined
    /\ pinpoint = Undefined
    /\ locals = EmptyObject

\* one call of mergeCategoryEnvParamsIntoAmplifyMeta (lines 158-170) on the
\* meta, recorded with its arguments
MergeCategoryEnvParamsCall ==
    /\ pc = "mergeCategoryEnvParams"
    /\ \E envParamManager \in MergeEnvParamStates, category \in CategoryNames,
          serviceName \in MergeServiceNames :
          LET result == mergeCategoryEnvParamsIntoAmplifyMeta(
                            envParamManager, amplifyMeta, category, serviceName)
              call == [envParamManager |-> envParamManager, category |-> category,
                       serviceName |-> serviceName, before |-> amplifyMeta]
          IN  /\ amplifyMeta' = result.meta
              /\ log' = <<[Event("mergeCategoryEnvParams", "") EXCEPT
                              !.ok = ~result.threw, !.arg = call]>>
              /\ thrown' = IF result.threw THEN <<result.error>> ELSE << >>
              /\ outcome' = IF result.threw THEN "thrown" ELSE "returned"
              /\ pc' = "done"
    /\ UNCHANGED <<channel, inputs, forcePush, persistedMeta, moduleCache, lists, tasks, seqIdx, running>>

MergeNext == MergeCategoryEnvParamsCall

MergeSpec == MergeInit /\ [][MergeNext]_vars

\* C15: a call of mergeCategoryEnvParamsIntoAmplifyMeta never raises an error;
\* when overrides are recorded for the pair and the meta has the entry, each
\* override is the value of its key in the entry and nothing else of the meta
\* changes; when there is no parameter manager, or no parameter, or no entry
\* for the category or the resource in the meta, the meta is left unchanged.
C15_MergeOverridesOrNoOp ==
    pc = "done" =>
        LET call == log[1].arg
            before == call.before
            params == call.envParamManager.params
            recorded == call.envParamManager.has /\ DOMAIN params # {}
            hasEntry == /\ call.category \in DOMAIN before
                        /\ call.serviceName \in DOMAIN before[call.category]
        IN  /\ thrown = << >>
            /\ outcome = "returned"
            /\ IF recorded /\ hasEntry
               THEN /\ DOMAIN amplifyMeta = DOMAIN before
                    /\ \A c \in DOMAIN before :
                          /\ DOMAIN amplifyMeta[c] = DOMAIN before[c]
                          /\ \A r \in DOMAIN before[c] :
                                IF c = call.category /\ r = call.serviceName
                                THEN amplifyMeta[c][r] = ObjectAssign(before[c][r], params)
                                ELSE amplifyMeta[c][r] = before[c][r]
               ELSE amplifyMeta = before

\* the plugins of getAllCategoryPluginInfo's result from category i on, in
\* iteration order: category by category, each category's locations in order
RECURSIVE PluginsInOrder(_, _)
PluginsInOrder(infoList, i) ==
    IF i > Len(infoList) THEN << >>
    ELSE [j \in 1..Len(infoList[i].plugins) |->
             [who |-> infoList[i].category, location |-> infoList[i].plugins[j]]]
         \o PluginsInOrder(infoList, i + 1)

\* of those, the plugins of eligible categories that have been loaded and
\* expose initEnv
LoadedInitEnvPlugins ==
    LET Queued(p) == /\ p.who \in ObjectKeys(persistedMeta)
                     /\ p.location \in DOMAIN moduleCache
                     /\ moduleCache[p.location].initEnv
    IN  SelectSeq(PluginsInOrder(categoryPluginInfoList, 1), Queued)

\* the calls of a hook's tasks
HookCalls(hook) == {k \in HookPositions(hook) : log[k].ev = "start"}

\* the tasks of a hook are called in the order of their list, none skipped
CalledInListOrder(hook) ==
    LET calls == HookCalls(hook)
        list == TasksOfHook(hook)
    IN  /\ \A k \in calls :
              /\ log[k].n \in 1..Len(list)
              /\ log[k].who = list[log[k].n].who
              /\ \A j \in calls : j < k => log[j].n < log[k].n
        /\ {log[k].n : k \in calls} = 1..Cardinality(calls)

\* C16: the category task list is, in order, the initEnv hooks of the loaded
\* plugins of the eligible categories, in the iteration order of the category
\* plugin info and, within a category, of its plugin locations; the provider
\* task list is the provider list in order, duplicates kept, and complete when
\* the provider phase starts; in each phase the tasks are called in list order.
C16_TaskListsKeepOrder ==
    /\ [n \in 1..Len(categoryInitializationTasks) |->
           [who |-> categoryInitializationTasks[n].who,
            location |-> categoryInitializationTasks[n].location]] = LoadedInitEnvPlugins
    /\ Len(initializationTasks) <= Len(providers)
    /\ \A n \in 1..Len(initializationTasks) : initializationTasks[n].who = providers[n]
    /\ TimerStarts(INIT_ENV_PLATFORM) # {} => Len(initializationTasks) = Len(providers)
    /\ CalledInListOrder("provider.initEnv")
    /\ CalledInListOrder("category.initEnv")

\* C16 witness: a completed run with the tasks of two categories, one of them
\* with two plugins, and a provider list that names one provider twice.
C16_Witness ==
    /\ outcome = "returned"
    /\ Len(categoryInitializationTasks) = 3
    /\ Len(providers) = 2
    /\ providers[1] = providers[2]
    /\ Cardinality(HookCalls("provider.initEnv")) = 2

\* the failed imports of category plugins
FailedCategoryImports == {k \in CategoryImports : ~log[k].ok}

\* C17: when the plugin module of an eligible category cannot be loaded the run
\* ends with a PluginNotLoadedFault whose message names that category; the
\* failed import is the last import of the run, the provider plugins are not
\* even looked up, and no initEnv or pushResources task is ever called.
C17_CategoryLoadFailureAborts ==
    \A k \in FailedCategoryImports :
        /\ log[k].who \in ObjectKeys(persistedMeta)
        /\ outcome = "thrown"
        /\ pc = "done"
        /\ thrown[1].type = "PluginNotLoadedFault"
        /\ thrown[1].message = "Could not load plugin for category " \o log[k].who \o "."
        /\ \A j \in Where("import") : j <= k
        /\ Where("getProviderPlugins") = {}
        /\ \A hook \in Hooks : HookPositions(hook) = {}
        /\ Where("startCodePathTimer") = {}

\* C17 witness: the plugin of the second eligible category failed to load
\* after the plugins of the first were loaded and queued, in a run with
\* providers.
C17_Witness ==
    /\ \E k \in FailedCategoryImports : log[k].who = "auth"
    /\ Len(categoryInitializationTasks) = 2
    /\ Len(providers) > 0

\* the calls and settlements of all plugin hooks, in order
AllHookEvents ==
    LET OfAHook(e) == e.ev \in {"start", "end"}
    IN  SelectSeq(log, OfAHook)

\* C18: at most one plugin hook invocation is in progress at any moment: a
\* hook that was called settles before any other hook is called, within a
\* phase and from one phase to the next, and a hook is in progress exactly
\* when the last hook event is a call.
C18_OneHookAtATime ==
    LET evs == AllHookEvents
        called(m) == evs[m].ev = "start" /\ evs[m].ok
    IN  /\ Cardinality(running) <= 1
        /\ \A m \in 1..Len(evs) :
              /\ (called(m) /\ m < Len(evs)) =>
                    /\ evs[m + 1].ev = "end"
                    /\ evs[m + 1].id = evs[m].id
                    /\ evs[m + 1].n = evs[m].n
              /\ evs[m].ev = "end" => (m > 1 /\ called(m - 1))
        /\ running # {} <=> (Len(evs) > 0 /\ called(Len(evs)))
        /\ \A i \in running : evs[Len(evs)].n = i

\* C18 witness: a hook of the push phase is in progress after the hooks of
\* both init phases have settled.
C18_Witness ==
    /\ pc = "push"
    /\ running # {}
    /\ HookPositions("provider.initEnv") # {}
    /\ HookPositions("category.initEnv") # {}

\* C19: each queued task is called at most once, whether it succeeds or fails;
\* each timed phase is entered at most once; after a task has failed no hook
\* is called any more and the run is over.
C19_NoRetry ==
    /\ \A hook \in Hooks :
          LET calls == HookCalls(hook)
          IN  /\ \A j, k \in calls : log[j].n = log[k].n => j = k
              /\ \A k \in TaskFailures(hook) :
                    /\ pc = "done"
                    /\ \A j \in PluginUses : log[j].ev = "import" \/ j <= k
    /\ \A id \in TimerIds : Cardinality(TimerStarts(id)) <= 1

\* C19 witness: the first task of the category phase failed in a run with
\* more category tasks and with provider tasks that had succeeded.
C19_Witness ==
    /\ \E k \in TaskFailures("category.initEnv") : log[k].n = 1
    /\ Len(categoryInitializationTasks) > 1
    /\ Len(initializationTasks) > 0
    /\ pc = "done"

\* the messages that report the success of the run
PullSuccessText == "Successfully pulled backend environment " \o EnvName \o " from the cloud."
InitSuccessText == "Initialized your environment successfully."

\* the success notifications for the run
RunSuccessNotifications ==
    {k \in Where("spinner.succeed") \cup Where("printer.success") :
        log[k].id \in {PullSuccessText, InitSuccessText}}

\* provider init, category init, the push phase when confirmed and the
\* regeneration of the outputs have succeeded before position k
RunCompletedBefore(k) ==
    /\ InitPhasesSucceeded
    /\ PushStepFailures = {}
    /\ forcePush # "undefined"
    /\ forcePush = "true" =>
          /\ Len(providerPushTasks) = Len(providers)
          /\ AllCompletedBefore("pushResources", k)
    /\ \E o \in OutputsCalls : o < k /\ log[o].ok

\* C20 (as stated): a success notification for the run is emitted only after
\* provider init, category init, the push phase (when confirmed) and the
\* regeneration of the outputs have succeeded, and no failure notification
\* follows it.
C20_Original ==
    \A k \in RunSuccessNotifications :
        /\ RunCompletedBefore(k)
        /\ \A f \in Where("spinner.fail") : f < k

\* C20 (amended): the line printed by printer.success is the last call of a
\* run, made only after provider init, category init, the push phase (when
\* confirmed) and the regeneration of the outputs have succeeded, and never in
\* a run with a failure notification; it is the run's success message in a
\* plain init and empty in a pull.  The message "Successfully pulled backend
\* environment <env> from the cloud." of a pull is emitted by spinner.succeed
\* right after the provider phase's timer is stopped, once every provider task
\* has completed and before project details, category init, push and outputs.
C20_SuccessReporting ==
    /\ \A k \in Where("printer.success") :
          /\ RunCompletedBefore(k)
          /\ k = Len(log)
          /\ Where("spinner.fail") = {}
          /\ outcome = "returned"
          /\ log[k].id = IF command.command = "pull" THEN "" ELSE InitSuccessText
    /\ Cardinality(Where("printer.success")) <= 1
    /\ Cardinality(Where("spinner.succeed")) <= 1
    /\ \A k \in Where("spinner.succeed") :
          /\ log[k].id = IF command.command = "pull" THEN PullSuccessText
                         ELSE "Initialized provider successfully."
          /\ AllCompletedBefore("provider.initEnv", k)
          /\ Len(initializationTasks) = Len(providers)
          /\ k > 1
          /\ log[k - 1].ev = "stopCodePathTimer" /\ log[k - 1].id = INIT_ENV_PLATFORM
          /\ \A j \in Where("getProjectDetails") \cup HookPositions("category.initEnv")
                      \cup PromptCalls \cup HookPositions("pushResources") \cup OutputsCalls :
                k < j
    /\ outcome = "returned" => Cardinality(Where("printer.success")) = 1

\* C20 witness: a pull run emitted the pull success message and, after a
\* category task failed, the failure notification.
C20_Witness ==
    /\ command.command = "pull"
    /\ \E k \in Where("spinner.succeed") :
          /\ log[k].id = PullSuccessText
          /\ \E f \in Where("spinner.fail") : k < f
    /\ TaskFailures("category.initEnv") # {}

\* ------------------------------------------------------------------- C21

\* the successful imports of provider plugins made by the loop of lines 72-84,
\* which ends before spinner.start (line 86)
ResolvedProviderImports ==
    LET spin == {s \in 1..Len(log) : log[s].ev = "spinner.start"}
    IN  {k \in 1..Len(log) : /\ log[k].ev = "import"
                             /\ log[k].who \in ProviderNames
                             /\ log[k].ok
                             /\ \A s \in spin : k < s}

\* the calls of providerModule.initEnv on a module that has no such member
HooklessInitCalls ==
    {k \in 1..Len(log) : /\ log[k].ev = "start"
                         /\ log[k].id = "provider.initEnv"
                         /\ ~moduleCache[ProviderPluginLocation(log[k].who)].initEnv}

\* C21: every provider whose module loaded has exactly one init task, in list
\* order, whether or not the module has an initEnv member; a PluginNotLoadedFault
\* is raised only by a failed import; and calling the task of a module without
\* initEnv throws, which ends the run with the platform phase's ProjectInitFault
\* around the TypeError, nothing being called afterwards.
C21_MissingHookFoundWhenTaskRuns ==
    LET resolved == ResolvedProviderImports
        hookless == HooklessInitCalls
    IN  /\ Len(initializationTasks) = Cardinality(resolved)
        /\ Len(initializationTasks) <= Len(providers)
        /\ \A i \in 1..Len(initializationTasks) :
              /\ initializationTasks[i].hook = "provider.initEnv"
              /\ initializationTasks[i].who = providers[i]
        /\ (thrown # << >> /\ thrown[1].type = "PluginNotLoadedFault")
              => \E k \in 1..Len(log) : log[k].ev = "import" /\ ~log[k].ok
        /\ \A k \in hookless :
              /\ ~log[k].ok
              /\ outcome = "thrown"
              /\ thrown[1].type = "ProjectInitFault"
              /\ thrown[1].message = "Could not initialize platform for '" \o currentEnv
                                         \o "': providerModule.initEnv is not a function"
              /\ thrown[1].cause = <<NotAFunction(initializationTasks[log[k].n])>>
              /\ \A j \in (k + 1)..Len(log) :
                    log[j].ev \in {"stopCodePathTimer", "caught", "spinner.fail", "throw"}

\* C21 witness: both providers' modules loaded, the second one without initEnv;
\* its task was queued and failed when called after the first provider's hook
\* had completed.
C21_Witness ==
    /\ Len(providers) = 2
    /\ Len(initializationTasks) = 2
    /\ \E k \in HooklessInitCalls : log[k].n = 2 /\ log[k].who = providers[2]
    /\ \A k \in 1..Len(log) : log[k].ev = "import" => log[k].ok

\* ------------------------------------------------------------------- C22

\* the calls of getResourceStatus (line 135), in call order
StatusCalls == {k \in 1..Len(log) : log[k].ev = "getResourceStatus"}

\* the calls of pushResources made by the tasks of line 136
PushStarts == {k \in 1..Len(log) : log[k].ev = "start" /\ log[k].id = "pushResources"}

\* C22: when a pushResources task is called, getResourceStatus has been called
\* before it once for every entry of the provider list, in list order, and all
\* of these calls precede the first pushResources call; the task receives the
\* definition computed by its provider's call, i.e. one computed before any push
\* had completed, also for a later provider; and a getResourceStatus failure
\* ends the run with no pushResources task called.
C22_StatusResolvedBeforePushes ==
    LET status == StatusCalls
        pushes == PushStarts
        nth(k) == Cardinality({j \in status : j <= k})
    IN  /\ \A k \in status : log[k].id = providers[nth(k)]
        /\ Cardinality(status) <= Len(providers)
        /\ \A k \in pushes :
              /\ Cardinality(status) = Len(providers)
              /\ \A j \in status : j < k /\ log[j].ok
              /\ log[k].arg = [provider |-> log[k].who, afterPushes |-> "0"]
              /\ log[k].who = providers[log[k].n]
        /\ \A j \in status :
              ~log[j].ok => /\ pushes = {}
                            /\ outcome = "thrown"
                            /\ \A i \in status : i <= j

\* C22 witness: with two providers the second provider's push was called after
\* the first provider's push had completed.
C22_Witness ==
    /\ Len(providers) = 2
    /\ \E k \in PushStarts : log[k].n = 2
    /\ \E k \in 1..Len(log) : log[k].ev = "end" /\ log[k].id = "pushResources" /\ log[k].ok

\* C22 witness of the failure case: the status of the second provider could not
\* be computed after the first provider's had been.
C22_StatusFailureWitness ==
    /\ Len(providers) = 2
    /\ Cardinality(StatusCalls) = 2
    /\ \E j \in StatusCalls : ~log[j].ok

\* ------------------------------------------------------------------- C23

\* a run for each way of invoking the command, with a list of two providers
EnvInit ==
    /\ restoreBackend \in BOOLEAN
    /\ command \in EnvCommands
    /\ forcePush \in ForcePushValues
    /\ providers = <<"awscloudformation", "other">>
    /\ persistedMeta \in PersistedMetas
    /\ moduleCache = EmptyObject
    /\ pc = "getTeamProviderInfo"
    /\ amplifyMeta = Undefined
    /\ categoryPluginInfoList = << >>
    /\ availableCategories = << >>
    /\ catIdx = 1
    /\ plugIdx = 1
    /\ provIdx = 1
    /\ categoryInitializationTasks = << >>
    /\ initializationTasks = << >>
    /\ providerPushTasks = << >>
    /\ seqIdx = 1
    /\ running = {}
    /\ outcome = "running"
    /\ thrown = << >>
    /\ log = << >>
    /\ serviceMeta = Undefined
    /\ pinpoint = Undefined
    /\ locals = EmptyObject

EnvSpec == EnvInit /\ [][Next]_vars

\* the calls of the merge step and of plugin resolution (lines 24-84)
MergeAndResolutionCalls ==
    {"getTeamProviderInfo", "ensureEnvParamManager", "getBackendConfig",
     "mergeCategoryEnvParams", "setMeta", "getMeta", "getAllCategoryPluginInfo",
     "import", "getProviderPlugins"}

\* C23: spinner.start is called at most once, after the merge step (when it is
\* not skipped) and after every plugin of every eligible category and every
\* provider of the list has been imported, nothing having failed; a failure of
\* the merge or of resolution is followed by one spinner.fail without any
\* spinner.start; and the start message is the "Fetching updates to backend
\* environment" one exactly for `pull` and `env pull`.
C23_SpinnerStartedAfterResolution ==
    LET n == Len(log)
        starts == {k \in 1..n : log[k].ev = "spinner.start"}
        fails == {k \in 1..n : log[k].ev = "spinner.fail"}
        eligible == {i \in 1..Len(categoryPluginInfoList) :
                        categoryPluginInfoList[i].category \in ObjectKeys(persistedMeta)}
        ImportedBefore(s, who, location) ==
            \E j \in 1..(s - 1) : /\ log[j].ev = "import"
                                  /\ log[j].who = who
                                  /\ log[j].id = location
    IN  /\ Cardinality(starts) <= 1
        /\ \A s \in starts :
              /\ \A j \in 1..(s - 1) : log[j].ok /\ log[j].ev \in MergeAndResolutionCalls
              /\ \E j \in 1..(s - 1) : log[j].ev = "ensureEnvParamManager"
              /\ ~restoreBackend => \E j \in 1..(s - 1) : log[j].ev = "setMeta"
              /\ \E j \in 1..(s - 1) : log[j].ev = "getAllCategoryPluginInfo"
              /\ \A i \in eligible :
                    \A p \in 1..Len(categoryPluginInfoList[i].plugins) :
                        ImportedBefore(s, categoryPluginInfoList[i].category,
                                       categoryPluginInfoList[i].plugins[p])
              /\ \A i \in 1..Len(providers) :
                    ImportedBefore(s, providers[i], ProviderPluginLocation(providers[i]))
              /\ log[s].id =
                    IF command \in {Input("pull", << >>), Input("env", <<"pull">>)}
                    THEN "Fetching updates to backend environment: " \o currentEnv
                             \o " from the cloud."
                    ELSE "Initializing your environment: " \o currentEnv
        /\ \A k \in 1..n :
              (~log[k].ok /\ log[k].ev \in MergeAndResolutionCalls)
                 => /\ starts = {}
                    /\ Cardinality(fails) = 1
                    /\ \A f \in fails : k < f /\ log[f].id = SpinnerFailMessage
                    /\ outcome = "thrown"

\* C23 witness: `amplify env pull` started the indicator with the pull message
\* after two category plugins and two providers had been imported.
C23_Witness ==
    /\ command = Input("env", <<"pull">>)
    /\ \E s \in 1..Len(log) :
          /\ log[s].ev = "spinner.start"
          /\ log[s].id = "Fetching updates to backend environment: dev from the cloud."
    /\ Len(initializationTasks) = 2
    /\ Len(categoryInitializationTasks) >= 2

\* C23 witness of the failure case: checking out an environment called pull, the
\* merge step failed and the failure was notified with no indicator started.
C23_FailureWitness ==
    /\ command = Input("env", <<"checkout", "pull">>)
    /\ \E k \in 1..Len(log) : log[k].ev = "mergeCategoryEnvParams" /\ ~log[k].ok
    /\ \E k \in 1..Len(log) : log[k].ev = "spinner.fail"
    /\ \A k \in 1..Len(log) : log[k].ev # "spinner.start"

\* =================================================== notification channels
\* channel-email.ts and the APNS channel module: enable and disable against the
\* Pinpoint API.  Field values are strings; an absent key is undefined.  The log
\* holds the calls of the operation in progress, or of the last one.

\* the variables of initializeEnv, which a channel operation does not touch
initEnvState ==
    <<inputs, forcePush, persistedMeta, moduleCache, amplifyMeta, lists, tasks, seqIdx, running>>

\* context.exeInfo.serviceMeta.output.Id
ApplicationId == "app-id"

\* !o[k] for a string-valued member
Falsy(o, k) == k \notin DOMAIN o \/ o[k] = ""

\* reading a member of undefined
CannotReadProperty(k) ==
    TypeError("Cannot read properties of undefined (reading '" \o k \o "')")

\* new AmplifyError(name, { message, resolution })
AmplifyError(name, message) ==
    [type |-> name, message |-> message, details |-> "", cause |-> NoCause]

\* an error the Pinpoint client rejects with
PinpointErrors ==
    {[type |-> "Error", code |-> "NotFoundException", message |-> "Application not found"],
     [type |-> "Error", code |-> "TooManyRequestsException", message |-> "Rate exceeded"]}

\* buildPinpointChannelResponseSuccess(action, deploymentType, channelName, output)
buildPinpointChannelResponseSuccess(action, channelName, output) ==
    [action |-> action, deploymentType |-> "INLINE", channel |-> channelName,
     response |-> [status |-> "success"], output |-> output]

\* serviceMeta.output[channelName]
ChannelOutput(channelName) == Get(serviceMeta, channelName)

\* context.exeInfo.serviceMeta.output[channelName] = response
SetChannelOutput(channelName, response) ==
    ObjectAssign(serviceMeta, [c \in {channelName} |-> response])

\* the operation starts: what it was given and what was stored
Started(action, channelName, input) ==
    [Event(action, channelName) EXCEPT
        !.arg = [input |-> input, before |-> ChannelOutput(channelName)]]

\* the operation returns `value` after the calls `events`
ChannelReturns(events, value) ==
    /\ log' = log \o events \o <<[Event("return", "") EXCEPT !.arg = value]>>
    /\ outcome' = "returned"
    /\ thrown' = << >>
    /\ pc' = "idle"
    /\ locals' = EmptyObject

\* the operation throws e after the calls `events`
ChannelThrows(events, e) ==
    /\ log' = log \o events \o <<Event("throw", e.message)>>
    /\ outcome' = "thrown"
    /\ thrown' = <<e>>
    /\ pc' = "idle"
    /\ locals' = EmptyObject

\* the operation is suspended at the await `next` after the calls `events`
ChannelAwaits(events, next, frame) ==
    /\ log' = log \o events
    /\ outcome' = "running"
    /\ thrown' = << >>
    /\ pc' = next
    /\ locals' = frame

\* ------------------------------------------------------- channel-email.ts

EmailChannelName == "Email"

EmailFields == {"FromAddress", "Identity", "RoleArn"}

\* what the user means to configure
EmailSettings ==
    [FromAddress |-> "from@example.com", Identity |-> "arn:aws:ses:identity",
     RoleArn |-> "arn:aws:iam:role"]

\* context.exeInfo.pinpointInputParams?.[channelName]: none, or an object with
\* all, some or none of the parameters
EmailInputParams ==
    {Undefined, EmptyObject, EmailSettings,
     [FromAddress |-> "from@example.com", Identity |-> "arn:aws:ses:identity"],
     [FromAddress |-> "from@example.com", Identity |-> "", RoleArn |-> "arn:aws:iam:role"]}

\* the successMessage argument of enable (lines 33-34, 46)
EmailSuccessMessages == {Undefined, [text |-> "The Email channel has been successfully updated."]}

\* lines 117-125, for a channelInput that is an object
EmailParamsMissing(channelInput) ==
    Falsy(channelInput, "FromAddress") \/ Falsy(channelInput, "Identity")
        \/ Falsy(channelInput, "RoleArn")

\* a validation that asks for the two parameters disable sends
EmailParamsMissingForRequest(channelInput) ==
    Falsy(channelInput, "FromAddress") \/ Falsy(channelInput, "Identity")

\* lines 117-125: validateInputParams(channelInput)
validateInputParams(channelInput) ==
    IF channelInput = Undefined
    THEN [threw |-> TRUE, error |-> CannotReadProperty("FromAddress")]
    ELSE IF EmailParamsMissing(channelInput)
    THEN [threw |-> TRUE,
          error |-> AmplifyError("UserInputError",
                        "FromAddress, Identity or RoleArn is missing for the Email channel")]
    ELSE [threw |-> FALSE, value |-> channelInput]

\* lines 60-84: the answers of inquirer.prompt, each question defaulting to the
\* stored value; the user types every value or none
EmailAnswers(typed) ==
    LET channelOutput == IF ChannelOutput(EmailChannelName) # Undefined
                         THEN ChannelOutput(EmailChannelName) ELSE EmptyObject
    IN  [k \in EmailFields |->
            IF typed THEN EmailSettings[k]
            ELSE IF k \in DOMAIN channelOutput THEN channelOutput[k] ELSE ""]

\* lines 87-93
EmailEnableParams(answers) ==
    [ApplicationId |-> serviceMeta["Id"],
     EmailChannelRequest |-> ObjectAssign(answers, [Enabled |-> "true"])]

\* lines 134-141
EmailDisableParams(channelOutput) ==
    [ApplicationId |-> serviceMeta["Id"],
     EmailChannelRequest |-> [Enabled |-> "false", FromAddress |-> channelOutput["FromAddress"],
                              Identity |-> channelOutput["Identity"]]]

\* data.EmailChannelResponse of a successful updateEmailChannel: the settings of
\* the request, with or without the role the service holds for the channel
EmailChannelResponses(params) ==
    LET request == params.EmailChannelRequest
        plain == ObjectAssign([ApplicationId |-> params.ApplicationId],
                              [k \in {f \in DOMAIN request : request[f] # ""} |-> request[k]])
    IN  {plain, ObjectAssign(plain, [RoleArn |-> EmailSettings["RoleArn"]])}

\* lines 95-97 and 142-144: spinner.start and the call of updateEmailChannel
EmailUpdateCalled(text, params) ==
    <<Event("spinner.start", text),
      [Event("updateEmailChannel", "") EXCEPT !.arg = params]>>

\* lines 110-113 and 157-160
NotificationsChannelEmailFault(verb, err) ==
    amplifyFaultWithTroubleshootingLink("NotificationsChannelEmailFault",
        "Failed to " \o verb \o " the Email channel.", err.message, NoCause)

\* lines 103 and 150
AlreadyDeletedMessage(params) ==
    "Project with ID '" \o params.ApplicationId \o "' was already deleted from the cloud."

\* lines 55-58 and 86-97, or 59-84: enable up to its first await
EmailEnable ==
    /\ pc = "idle"
    /\ \E input \in EmailInputParams, successMessage \in EmailSuccessMessages :
         LET started == <<Started("enable", EmailChannelName, input)>>
             checked == validateInputParams(input)
         IN  /\ log' = << >> \o started \o
                         (IF input = Undefined THEN <<Event("inquirer.prompt", "")>>
                          ELSE IF checked.threw THEN <<Event("throw", checked.error.message)>>
                          ELSE EmailUpdateCalled("Enabling Email Channel.",
                                                 EmailEnableParams(checked.value)))
             /\ IF input = Undefined
                THEN /\ pc' = "email.prompt"
                     /\ locals' = [action |-> "enable", successMessage |-> successMessage]
                     /\ outcome' = "running"
                     /\ thrown' = << >>
                ELSE IF checked.threw
                THEN /\ pc' = "idle"
                     /\ locals' = EmptyObject
                     /\ outcome' = "thrown"
                     /\ thrown' = <<checked.error>>
                ELSE /\ pc' = "email.update"
                     /\ locals' = [action |-> "enable", successMessage |-> successMessage,
                                   params |-> EmailEnableParams(checked.value)]
                     /\ outcome' = "running"
                     /\ thrown' = << >>
    /\ UNCHANGED <<serviceMeta, pinpoint, initEnvState>>

\* the await of line 84 settles; lines 87-97 follow
EmailPromptAnswered ==
    /\ pc = "email.prompt"
    /\ \E typed \in BOOLEAN :
         LET params == EmailEnableParams(EmailAnswers(typed))
         IN  ChannelAwaits(EmailUpdateCalled("Enabling Email Channel.", params), "email.update",
                           ObjectAssign(locals, [params |-> params]))
    /\ UNCHANGED <<serviceMeta, pinpoint, initEnvState>>

\* the await of line 97 settles: lines 98-100 or 101-114
EmailEnableSettles ==
    /\ pc = "email.update"
    /\ locals["action"] = "enable"
    /\ LET params == locals["params"]
       IN  \/ \E response \in EmailChannelResponses(params) :
                /\ serviceMeta' = SetChannelOutput(EmailChannelName, response)
                /\ pinpoint' = ObjectAssign(pinpoint, [Email |-> response])
                /\ ChannelReturns(
                       <<[Event("updateEmailChannel.settled", "") EXCEPT !.arg = response],
                         Event("spinner.succeed",
                               IF locals["successMessage"] = Undefined
                               THEN "The Email channel has been successfully enabled."
                               ELSE locals["successMessage"].text)>>,
                       buildPinpointChannelResponseSuccess("enable", EmailChannelName, response))
           \/ \E err \in PinpointErrors :
                /\ UNCHANGED <<serviceMeta, pinpoint>>
                /\ IF err.code = "NotFoundException"
                   THEN ChannelReturns(
                            <<[Failed("updateEmailChannel.settled", err.code) EXCEPT !.arg = err],
                              Event("spinner.succeed", AlreadyDeletedMessage(params))>>,
                            buildPinpointChannelResponseSuccess("enable", EmailChannelName,
                                                                [id |-> params.ApplicationId]))
                   ELSE ChannelThrows(
                            <<[Failed("updateEmailChannel.settled", err.code) EXCEPT !.arg = err],
                              Event("spinner.stop", "")>>,
                            NotificationsChannelEmailFault("enable", err))
    /\ UNCHANGED initEnvState

\* lines 132-144: disable up to its await
EmailDisable ==
    /\ pc = "idle"
    /\ LET started == <<Started("disable", EmailChannelName, Undefined)>>
           checked == validateInputParams(ChannelOutput(EmailChannelName))
       IN  IF checked.threw
           THEN /\ log' = started \o <<Event("throw", checked.error.message)>>
                /\ outcome' = "thrown"
                /\ thrown' = <<checked.error>>
                /\ pc' = "idle"
                /\ locals' = EmptyObject
           ELSE LET params == EmailDisableParams(checked.value)
                IN  /\ log' = started \o EmailUpdateCalled("Disabling Email Channel.", params)
                    /\ outcome' = "running"
                    /\ thrown' = << >>
                    /\ pc' = "email.update"
                    /\ locals' = [action |-> "disable", params |-> params]
    /\ UNCHANGED <<serviceMeta, pinpoint, initEnvState>>

\* the await of line 144 settles: lines 145-147 or 148-161
EmailDisableSettles ==
    /\ pc = "email.update"
    /\ locals["action"] = "disable"
    /\ LET params == locals["params"]
       IN  \/ \E response \in EmailChannelResponses(params) :
                /\ serviceMeta' = SetChannelOutput(EmailChannelName, response)
                /\ pinpoint' = ObjectAssign(pinpoint, [Email |-> response])
                /\ ChannelReturns(
                       <<[Event("updateEmailChannel.settled", "") EXCEPT !.arg = response],
                         Event("spinner.succeed", "The Email channel has been disabled.")>>,
                       buildPinpointChannelResponseSuccess("disable", EmailChannelName, response))
           \/ \E err \in PinpointErrors :
                /\ UNCHANGED <<serviceMeta, pinpoint>>
                /\ IF err.code = "NotFoundException"
                   THEN ChannelReturns(
                            <<[Failed("updateEmailChannel.settled", err.code) EXCEPT !.arg = err],
                              Event("spinner.succeed", AlreadyDeletedMessage(params))>>,
                            buildPinpointChannelResponseSuccess("disable", EmailChannelName,
                                                                [id |-> params.ApplicationId]))
                   ELSE ChannelThrows(
                            <<[Failed("updateEmailChannel.settled", err.code) EXCEPT !.arg = err],
                              Event("spinner.fail", "Failed to disable the Email channel.")>>,
                            NotificationsChannelEmailFault("disable", err))
    /\ UNCHANGED initEnvState

\* a project whose Pinpoint application has no Email channel yet, or an enabled one
EmailInit ==
    /\ restoreBackend = FALSE
    /\ command = Input("init", << >>)
    /\ forcePush = "false"
    /\ providers = << >>
    /\ persistedMeta = EmptyObject
    /\ moduleCache = EmptyObject
    /\ pc = "idle"
    /\ amplifyMeta = Undefined
    /\ categoryPluginInfoList = << >>
    /\ availableCategories = << >>
    /\ catIdx = 1
    /\ plugIdx = 1
    /\ provIdx = 1
    /\ categoryInitializationTasks = << >>
    /\ initializationTasks = << >>
    /\ providerPushTasks = << >>
    /\ seqIdx = 1
    /\ running = {}
    /\ outcome = "returned"
    /\ thrown = << >>
    /\ log = << >>
    /\ \E stored \in {Undefined, ObjectAssign(EmailSettings, [Enabled |-> "true"])} :
          /\ serviceMeta = IF stored = Undefined THEN [Id |-> ApplicationId]
                           ELSE [Id |-> ApplicationId, Email |-> stored]
          /\ pinpoint = IF stored = Undefined THEN EmptyObject ELSE [Email |-> stored]
    /\ locals = EmptyObject

EmailNext ==
    \/ EmailEnable
    \/ EmailPromptAnswered
    \/ EmailEnableSettles
    \/ EmailDisable
    \/ EmailDisableSettles

EmailSpec == EmailInit /\ [][EmailNext]_vars

\* ------------------------------------------------------------------- C24

\* one of the three parameters is missing from o, or o itself is
SomeEmailParamMissing(o) == \E f \in EmailFields : Falsy(o, f)

\* what the last (or current) Email operation did to serviceMeta.output.Email:
\* it is replaced only by the response of a successful updateEmailChannel; a
\* NotFoundException gives a success response and no change; any other error
\* gives NotificationsChannelEmailFault and no change; and when `rejected` holds
\* of the operation, it threw UserInputError without calling the API or
\* changing anything.
EmailFrameEffects(rejected(_)) ==
    log # << >> =>
        LET op == log[1]
            before == op.arg.before
            now == ChannelOutput(EmailChannelName)
            settled == {k \in 1..Len(log) : log[k].ev = "updateEmailChannel.settled"}
            called == \E k \in 1..Len(log) : log[k].ev = "updateEmailChannel"
            returned == log[Len(log)].arg
        IN  /\ now # before => \E k \in settled : log[k].ok /\ now = log[k].arg
            /\ \A k \in settled :
                  /\ log[k].ok => now = log[k].arg
                  /\ (~log[k].ok /\ log[k].arg.code = "NotFoundException")
                        => /\ outcome = "returned"
                           /\ log[Len(log)].ev = "return"
                           /\ returned.response.status = "success"
                           /\ now = before
                  /\ (~log[k].ok /\ log[k].arg.code # "NotFoundException")
                        => /\ outcome = "thrown"
                           /\ thrown[1].type = "NotificationsChannelEmailFault"
                           /\ now = before
            /\ rejected(op) => /\ outcome = "thrown"
                               /\ thrown[1].type = "UserInputError"
                               /\ ~called
                               /\ now = before

\* enable with supplied input, or disable with a stored output, that lacks a parameter
LacksParamOfStoredOrSupplied(op) ==
    \/ /\ op.ev = "enable"
       /\ op.arg.input # Undefined
       /\ SomeEmailParamMissing(op.arg.input)
    \/ /\ op.ev = "disable"
       /\ op.arg.before # Undefined
       /\ SomeEmailParamMissing(op.arg.before)

\* the same, and also disable when no Email output is stored at all
LacksParam(op) ==
    \/ /\ op.ev = "enable"
       /\ op.arg.input # Undefined
       /\ SomeEmailParamMissing(op.arg.input)
    \/ /\ op.ev = "disable"
       /\ SomeEmailParamMissing(op.arg.before)

\* The effects hold when disable finds an Email output stored; without one,
\* disable throws the TypeError of reading FromAddress of undefined, calls
\* nothing and changes nothing.
EmailFrameEffectsWithStoredOutput ==
    /\ EmailFrameEffects(LacksParamOfStoredOrSupplied)
    /\ (log # << >> /\ log[1].ev = "disable" /\ log[1].arg.before = Undefined)
          => /\ outcome = "thrown"
             /\ thrown[1].type = "TypeError"
             /\ \A k \in 1..Len(log) : log[k].ev # "updateEmailChannel"
             /\ ChannelOutput(EmailChannelName) = Undefined

\* C24: after any sequence of enable and disable, output.Email is replaced only
\* by the response of a successful updateEmailChannel; NotFoundException gives a
\* success response and no change, any other error NotificationsChannelEmailFault
\* and no change; and whenever FromAddress, Identity or RoleArn is missing from
\* the supplied input (enable) or from the stored channel output (disable) the
\* operation raises UserInputError without calling the API or changing state.
C24_EmailFrameEffect == EmailFrameEffects(LacksParam)

\* C24: a disable that ended with an error other than UserInputError although a
\* parameter was missing from what is stored: nothing is stored for the channel.
C24_DisableWithoutStoredOutput ==
    /\ log # << >>
    /\ log[1].ev = "disable"
    /\ SomeEmailParamMissing(log[1].arg.before)
    /\ outcome = "thrown"
    /\ thrown[1].type # "UserInputError"

\* ------------------------------------------------ the APNS channel module

ApnsChannelName == "APNS"

\* the files fs.existsSync finds
ExistingFiles == {"cert.p12", "key.p8"}

\* context.exeInfo.pinpointInputParams?.[channelName]: none, or the settings of
\* a headless enable
ApnsInputParams ==
    {Undefined, EmptyObject,
     [DefaultAuthenticationMethod |-> "Certificate", P12FilePath |-> "cert.p12"],
     [DefaultAuthenticationMethod |-> "Certificate", P12FilePath |-> "lost.p12"],
     [DefaultAuthenticationMethod |-> "Certificate"],
     [DefaultAuthenticationMethod |-> "Key", BundleId |-> "b", TeamId |-> "t",
      TokenKeyId |-> "k", P8FilePath |-> "key.p8"],
     [DefaultAuthenticationMethod |-> "Key", BundleId |-> "b", TeamId |-> "t",
      TokenKeyId |-> "k"],
     [DefaultAuthenticationMethod |-> "Key", BundleId |-> "b", P8FilePath |-> "key.p8"],
     [DefaultAuthenticationMethod |-> "Token"]}

\* the successMessage argument of enable (lines 38-39, 48); undefined is written
\* "", which line 125 treats alike
ApnsSuccessMessages == {"", "The APNS channel has been successfully updated."}

\* the faults of lines 132-177
ApnsInputFault(action, message) ==
    amplifyFaultWithTroubleshootingLink("NotificationsChannelAPNSFault", message,
                                        "Action: " \o action, NoCause)

\* lines 132-177: validateInputParams(action, channelInput) of the APNS module;
\* the message of the fault it throws, "" when it returns channelInput
ApnsInputProblem(channelInput) ==
    IF Falsy(channelInput, "DefaultAuthenticationMethod")
    THEN "DefaultAuthenticationMethod is missing for the APNS channel"
    ELSE LET authMethod == channelInput["DefaultAuthenticationMethod"]
         IN  IF authMethod = "Certificate"
             THEN IF Falsy(channelInput, "P12FilePath")
                  THEN "P12FilePath is missing for the APNS channel"
                  ELSE IF channelInput["P12FilePath"] \notin ExistingFiles
                  THEN "P12 file " \o channelInput["P12FilePath"]
                           \o " can NOT be found for the APNS channel"
                  ELSE ""
             ELSE IF authMethod = "Key"
             THEN IF Falsy(channelInput, "BundleId") \/ Falsy(channelInput, "TeamId")
                        \/ Falsy(channelInput, "TokenKeyId")
                  THEN "Missing BundleId, TeamId or TokenKeyId for the APNS channel"
                  ELSE IF Falsy(channelInput, "P8FilePath")
                  THEN "P8FilePath is missing for the APNS channel"
                  ELSE IF channelInput["P8FilePath"] \notin ExistingFiles
                  THEN "P8 file " \o channelInput["P8FilePath"]
                           \o " can NOT be found for the APNS channel"
                  ELSE ""
             ELSE "DefaultAuthenticationMethod " \o authMethod
                      \o " is unrecognized for the APNS channel"

\* what configureKey.run / configureCertificate.run resolve with (lines 87, 90)
ApnsCredentials(authMethod) ==
    IF authMethod = "Key"
    THEN [BundleId |-> "b", TeamId |-> "t", TokenKeyId |-> "k", TokenKey |-> "p8-content"]
    ELSE [Certificate |-> "p12-certificate", PrivateKey |-> "p12-key"]

\* lines 96-110 and 185-197: the request both calls send
ApnsRequest(answers, enabled) == ObjectAssign(answers, [Enabled |-> enabled])

\* the APNSChannelResponse of a successful update: the channel's settings
\* without its credentials
ApnsChannelResponse(platform, request) ==
    ObjectAssign(
        [ApplicationId |-> serviceMeta["Id"], Platform |-> platform,
         Enabled |-> request["Enabled"]],
        [k \in DOMAIN request \cap {"DefaultAuthenticationMethod"} |-> request[k]])

\* lines 119-122 and 207-210
NotificationsChannelAPNSFault(action, e) ==
    IF action = "enable"
    THEN amplifyFaultWithTroubleshootingLink("NotificationsChannelAPNSFault",
             "Failed to enable the APNS channel.", e.message, NoCause)
    ELSE amplifyFaultWithTroubleshootingLink("NotificationsChannelAPNSFault",
             "Failed to update the APNS channel.", "Action: disable. " \o e.message, NoCause)

\* a catch clause that stores the response the main call had returned
ApnsCatchStoresData(called, e) ==
    /\ serviceMeta' = IF "data" \in DOMAIN locals
                      THEN SetChannelOutput(ApnsChannelName, locals["data"])
                      ELSE serviceMeta
    /\ ChannelThrows(<<[Failed(called \o ".settled", e.code) EXCEPT !.arg = e],
                       IF locals["action"] = "enable" THEN Event("spinner.stop", "")
                       ELSE Event("spinner.fail", "Failed to update the APNS channel.")>>,
                     NotificationsChannelAPNSFault(locals["action"], e))

\* the catch clauses of lines 117-123 and 205-211, entered when `called` rejects
ApnsCatch(called, e) ==
    /\ serviceMeta' = serviceMeta
    /\ ChannelThrows(<<[Failed(called \o ".settled", e.code) EXCEPT !.arg = e],
                       IF locals["action"] = "enable" THEN Event("spinner.stop", "")
                       ELSE Event("spinner.fail", "Failed to update the APNS channel.")>>,
                     NotificationsChannelAPNSFault(locals["action"], e))

\* lines 63-70 and 86-90, or 71-83: enable up to its first await
ApnsEnable ==
    /\ pc = "idle"
    /\ \E input \in ApnsInputParams, successMessage \in ApnsSuccessMessages :
         LET started == <<Started("enable", ApnsChannelName, input)>>
         IN  IF input = Undefined
             THEN /\ log' = started \o <<Event("inquirer.prompt", "")>>
                  /\ pc' = "apns.prompt"
                  /\ locals' = [action |-> "enable", successMessage |-> successMessage,
                                channelInput |-> Undefined]
                  /\ outcome' = "running"
                  /\ thrown' = << >>
             ELSE IF ApnsInputProblem(input) # ""
             THEN LET fault == ApnsInputFault("enable", ApnsInputProblem(input))
                  IN  /\ log' = started \o <<Event("throw", fault.message)>>
                      /\ pc' = "idle"
                      /\ locals' = EmptyObject
                      /\ outcome' = "thrown"
                      /\ thrown' = <<fault>>
             ELSE LET authMethod == input["DefaultAuthenticationMethod"]
                  IN  /\ log' = started \o
                             <<[Event(IF authMethod = "Key" THEN "configureKey.run"
                                      ELSE "configureCertificate.run", "")
                                  EXCEPT !.arg = input]>>
                      /\ pc' = "apns.configure"
                      /\ locals' = [action |-> "enable", successMessage |-> successMessage,
                                    channelInput |-> input,
                                    answers |-> [DefaultAuthenticationMethod |-> authMethod]]
                      /\ outcome' = "running"
                      /\ thrown' = << >>
    /\ UNCHANGED <<serviceMeta, pinpoint, initEnvState>>

\* the await of line 83 settles; lines 86-90 follow
ApnsPromptAnswered ==
    /\ pc = "apns.prompt"
    /\ \E authMethod \in {"Certificate", "Key"} :
         ChannelAwaits(<<[Event(IF authMethod = "Key" THEN "configureKey.run"
                                ELSE "configureCertificate.run", "")
                            EXCEPT !.arg = locals["channelInput"]]>>,
                       "apns.configure",
                       ObjectAssign(locals,
                           [answers |-> [DefaultAuthenticationMethod |-> authMethod]]))
    /\ UNCHANGED <<serviceMeta, pinpoint, initEnvState>>

\* the await of line 87 or 90 settles; lines 88-114 follow
ApnsConfigured ==
    /\ pc = "apns.configure"
    /\ \/ ChannelThrows(<< >>, RawError("could not read the credentials"))
       \/ LET answers == ObjectAssign(locals["answers"],
                             ApnsCredentials(locals["answers"]["DefaultAuthenticationMethod"]))
              request == ApnsRequest(answers, "true")
          IN  ChannelAwaits(<<Event("spinner.start", "Enabling APNS Channel."),
                              [Event("updateApnsChannel", "") EXCEPT !.arg = request]>>,
                            "apns.update",
                            ObjectAssign(locals, [answers |-> answers, request |-> request]))
    /\ UNCHANGED <<serviceMeta, pinpoint, initEnvState>>

\* lines 184-203: disable up to its first await
ApnsDisable ==
    /\ pc = "idle"
    /\ LET request == ApnsRequest(EmptyObject, "false")
       IN  /\ log' = <<Started("disable", ApnsChannelName, Undefined),
                       Event("spinner.start", "Disabling APNS Channel."),
                       [Event("updateApnsChannel", "") EXCEPT !.arg = request]>>
           /\ pc' = "apns.update"
           /\ locals' = [action |-> "disable", request |-> request]
           /\ outcome' = "running"
           /\ thrown' = << >>
    /\ UNCHANGED <<serviceMeta, pinpoint, initEnvState>>

\* the await of line 114 or 203 settles: line 115 or 204, or the catch clause
UpdateApnsChannelSettles ==
    /\ pc = "apns.update"
    /\ \/ LET response == ApnsChannelResponse("APNS", locals["request"])
          IN  /\ pinpoint' = ObjectAssign(pinpoint, [APNS |-> response])
              /\ ChannelAwaits(
                     <<[Event("updateApnsChannel.settled", "") EXCEPT !.arg = response],
                       [Event("updateApnsSandboxChannel", "") EXCEPT !.arg = locals["request"]]>>,
                     "apns.sandbox", ObjectAssign(locals, [data |-> response]))
              /\ UNCHANGED serviceMeta
       \/ \E e \in PinpointErrors :
              /\ ApnsCatch("updateApnsChannel", e)
              /\ UNCHANGED pinpoint
    /\ UNCHANGED initEnvState

\* the await of line 115 or 204 settles: lines 116 and 125-129, or 212-214, or
\* the catch clause
UpdateApnsSandboxChannelSettles ==
    /\ pc = "apns.sandbox"
    /\ \/ LET response == ApnsChannelResponse("APNS_SANDBOX", locals["request"])
              data == locals["data"]
              settled == [Event("updateApnsSandboxChannel.settled", "") EXCEPT !.arg = response]
          IN  /\ pinpoint' = ObjectAssign(pinpoint, [APNS_SANDBOX |-> response])
              /\ serviceMeta' = SetChannelOutput(ApnsChannelName, data)
              /\ ChannelReturns(
                     <<settled,
                       Event("spinner.succeed",
                             IF locals["action"] = "disable"
                             THEN "The APNS channel has been disabled."
                             ELSE IF locals["successMessage"] = ""
                             THEN "The APNS channel has been successfully enabled."
                             ELSE locals["successMessage"])>>,
                     buildPinpointChannelResponseSuccess(locals["action"], ApnsChannelName, data))
       \/ \E e \in PinpointErrors :
              /\ ApnsCatch("updateApnsSandboxChannel", e)
              /\ UNCHANGED pinpoint
    /\ UNCHANGED initEnvState

\* a project whose Pinpoint application has no APNS channel yet, or an enabled one
ApnsInit ==
    /\ restoreBackend = FALSE
    /\ command = Input("init", << >>)
    /\ forcePush = "false"
    /\ providers = << >>
    /\ persistedMeta = EmptyObject
    /\ moduleCache = EmptyObject
    /\ pc = "idle"
    /\ amplifyMeta = Undefined
    /\ categoryPluginInfoList = << >>
    /\ availableCategories = << >>
    /\ catIdx = 1
    /\ plugIdx = 1
    /\ provIdx = 1
    /\ categoryInitializationTasks = << >>
    /\ initializationTasks = << >>
    /\ providerPushTasks = << >>
    /\ seqIdx = 1
    /\ running = {}
    /\ outcome = "returned"
    /\ thrown = << >>
    /\ log = << >>
    /\ \E enabled \in BOOLEAN :
          LET stored(platform) ==
                  [ApplicationId |-> ApplicationId, Platform |-> platform, Enabled |-> "true",
                   DefaultAuthenticationMethod |-> "Certificate"]
          IN  /\ serviceMeta = IF enabled
                               THEN [Id |-> ApplicationId, APNS |-> stored("APNS")]
                               ELSE [Id |-> ApplicationId]
              /\ pinpoint = IF enabled
                            THEN [APNS |-> stored("APNS"),
                                  APNS_SANDBOX |-> stored("APNS_SANDBOX")]
                            ELSE EmptyObject
    /\ locals = EmptyObject

ApnsNext ==
    \/ ApnsEnable
    \/ ApnsPromptAnswered
    \/ ApnsConfigured
    \/ ApnsDisable
    \/ UpdateApnsChannelSettles
    \/ UpdateApnsSandboxChannelSettles

ApnsSpec == ApnsInit /\ [][ApnsNext]_vars

\* ------------------------------------------------------------------- C25

\* the positions of an event of the operation in the log
ApnsEvents(ev) == {k \in 1..Len(log) : log[k].ev = ev}

\* C25: an APNS enable or disable calls updateApnsChannel and then
\* updateApnsSandboxChannel, each at most once and the sandbox one only after
\* the main one succeeded, and it returns only after both succeeded;
\* output.APNS is replaced only when both calls succeeded, then by the main
\* call's response; when either call fails the operation throws
\* NotificationsChannelAPNSFault with output.APNS as it was, also when the main
\* channel has already been updated in the service.
C25_ApnsFrameEffect ==
    log # << >> =>
        LET before == log[1].arg.before
            now == ChannelOutput(ApnsChannelName)
            mainCalls == ApnsEvents("updateApnsChannel")
            sandboxCalls == ApnsEvents("updateApnsSandboxChannel")
            mainSettled == ApnsEvents("updateApnsChannel.settled")
            sandboxSettled == ApnsEvents("updateApnsSandboxChannel.settled")
            bothSucceeded == /\ \E k \in mainSettled : log[k].ok
                             /\ \E k \in sandboxSettled : log[k].ok
        IN  /\ Cardinality(mainCalls) <= 1
            /\ Cardinality(sandboxCalls) <= 1
            /\ \A s \in ApnsEvents("spinner.start") : s + 1 \in mainCalls
            /\ \A k \in sandboxCalls :
                  \E c \in mainCalls, j \in mainSettled : c < j /\ j < k /\ log[j].ok
            /\ outcome = "returned" => bothSucceeded
            /\ now # before => bothSucceeded
            /\ bothSucceeded => \A k \in mainSettled : now = log[k].arg
            /\ \A k \in mainSettled \cup sandboxSettled :
                  ~log[k].ok => /\ outcome = "thrown"
                                /\ thrown[1].type = "NotificationsChannelAPNSFault"
                                /\ now = before
            /\ \A k \in mainSettled : log[k].ok => Get(pinpoint, "APNS") = log[k].arg

\* C25 witness: enabling the channel of a fresh application, the main call
\* succeeded and the sandbox call failed: the service holds the enabled channel,
\* the operation threw and no APNS output is stored.
C25_Witness ==
    /\ log # << >>
    /\ log[1].ev = "enable"
    /\ \E k \in ApnsEvents("updateApnsChannel.settled") :
          log[k].ok /\ Get(pinpoint, "APNS") = log[k].arg
    /\ \E k \in ApnsEvents("updateApnsSandboxChannel.settled") : ~log[k].ok
    /\ outcome = "thrown"
    /\ ChannelOutput(ApnsChannelName) = Undefined
    /\ Get(pinpoint, "APNS") # Undefined

\* C25 witness of the success case: a disable replaced the stored output of an
\* enabled channel by the main call's response.
C25_ReplacedWitness ==
    /\ log # << >>
    /\ log[1].ev = "disable"
    /\ log[1].arg.before # Undefined
    /\ outcome = "returned"
    /\ ChannelOutput(ApnsChannelName) # log[1].arg.before
    /\ ChannelOutput(ApnsChannelName)["Platform"] = "APNS"

==========================================================================
